---- MODULE Spec2Model ----
(***************************************************************************)
(* Model of the rate-limited Notion access layer of notion-bot:            *)
(*   - with_retry.wrapper        (src/src/core/notion/rate_limiter.py)     *)
(*   - MetricsCollector counters (src/src/core/monitoring/metrics.py)      *)
(*   - NotionTaskService methods as wrapped functions                      *)
(*                      (src/src/features/tasks/services/...)              *)
(*   - DatabaseResolver cache    (src/src/core/notion/database_resolver.py)*)
(*   - the error handler         (src/src/core/errors/error_handler.py)    *)
(*   - NotionClientFactory       (src/src/core/notion/client_factory.py)   *)
(*     and the token store      (src/src/features/tokens/repository.py)   *)
(*   - the list_tasks paging loop and the bodies of create_task and       *)
(*     update_task              (src/src/features/tasks/services/...)     *)
(*   - WorkspaceRepository.create                                         *)
(*                      (src/src/features/workspaces/repository.py)       *)
(* Times are in milliseconds, jitter_factor in percent, and a draw of      *)
(* random.uniform(-1, 1) in tenths.                                        *)
(***************************************************************************)
EXTENDS Integers, Sequences, FiniteSets, TLC

\* ------------------------------------------------------------------ bounds
NTasks == 2
MaxRetriesBound == 2
NCallers == 3
NResolvers == 2
NFactoryCallers == 2
MaxPage == 3
MaxLimit == 2
MaxItems == 5
MaxEmptyBatches == 1
NCreators == 2

\* ------------------------------------------------------- program constants
RateLimitStatus == 429
NotFoundStatus == 404
BadRequestStatus == 400
ServiceMaxRetries == 4
ServiceInitialDelay == 1000
ServiceMaxDelay == 8000
ServiceJitterFactor == 20
NotionMaxPageSize == 100

Tasks == 1..NTasks
Callers == 1..NCallers
Resolvers == 1..NResolvers

Min(a, b) == IF a <= b THEN a ELSE b
Max(a, b) == IF a >= b THEN a ELSE b

RECURSIVE Pow2(_)
Pow2(n) == IF n <= 0 THEN 1 ELSE 2 * Pow2(n - 1)

RECURSIVE SumOver(_, _)
SumOver(f, S) ==
    IF S = {} THEN 0
    ELSE LET x == CHOOSE y \in S : TRUE IN f[x] + SumOver(f, S \ {x})

\* ------------------------------------------------------------ retry policy
InitialDelays == {1000}
MaxDelays == {1500, 8000}
JitterFactors == {0, 20}
JitterDraws == {-10, 0, 10}

Policies ==
    [max_retries : 0..MaxRetriesBound, initial_delay : InitialDelays,
     max_delay : MaxDelays, jitter_factor : JitterFactors]

ServicePolicy ==
    [max_retries |-> ServiceMaxRetries, initial_delay |-> ServiceInitialDelay,
     max_delay |-> ServiceMaxDelay, jitter_factor |-> ServiceJitterFactor]

ServiceOps == {"create_task", "list_tasks", "update_task", "delete_task"}

\* --------------------------------------------------- outcomes of one call
\* kind: "ok" | "api" (notion_client.APIResponseError) | "exc" (any other
\* exception) | a domain error class name | "none". body: the type of the
\* error's body, a dict or a str (NotionAPIError takes both,
\* exceptions.py lines 55-61), "none" for what is no APIResponseError.
Outcome(k, s, m, v) ==
    [kind |-> k, status |-> s, marker |-> m, value |-> v,
     body |-> IF k = "api" THEN "dict" ELSE "none"]
NoOutcome == Outcome("none", 0, FALSE, 0)

\* What the upstream API can answer to the n-th call of one invocation: a
\* result (tagged with n), an error response with a status and a body that
\* does or does not contain "rate_limit", or a failure that is no response.
UpstreamAnswers(n) ==
    {Outcome("ok", 0, FALSE, n), Outcome("exc", 0, FALSE, 0)}
    \cup {Outcome("api", s, FALSE, 0) :
            s \in {RateLimitStatus, NotFoundStatus, BadRequestStatus, 500}}
    \cup {Outcome("api", 500, TRUE, 0)}
    \cup {[Outcome("api", BadRequestStatus, FALSE, 0) EXCEPT !.body = "str"]}

VARIABLES
    policy,             \* the with_retry arguments of the wrapped function
    fn,                 \* the wrapped function: "generic" or a service method
    pc,                 \* pc[t]: position of task t in wrapper
    attempt,            \* attempt[t]: the loop variable
    delay,              \* delay[t]: argument of the asyncio.sleep in progress
    result,             \* result[t]: what the invocation returned or raised
    invoked,            \* invoked[t]: calls of func made by this invocation
    rlSeen,             \* rlSeen[t]: attempts that ended in a rate-limit error
    slept,              \* slept[t]: backoff sleeps started by this invocation
    hitsBy,             \* hitsBy[t]: increment_rate_limit_hits calls made
    lastUp,             \* lastUp[t]: upstream's answer to the latest call
    upTarget,           \* upTarget[t]: the id the latest upstream call names
    notion_api_calls,   \* MetricsCollector._notion_api_calls
    rate_limit_hits,    \* MetricsCollector._rate_limit_hits
    \* --- MetricsCollector._lock and the callers of the two increments
    locked,             \* asyncio.Lock: held or not
    waiters,            \* asyncio.Lock: the queue of callers waiting for it
    mpc,                \* mpc[c]: position of caller c in an increment method
    mwhich,             \* mwhich[c]: the counter caller c increments
    mtmp,               \* mtmp[c]: the value c read from the counter
    \* --- DatabaseResolver and the tasks calling it
    cache,              \* DatabaseResolver._cache, by database id
    rpc,                \* rpc[r]: position of task r in a resolver method
    rop,                \* rop[r]: the method task r called
    rdb,                \* rdb[r]: its database_id argument
    rsrc,               \* rsrc[r]: source_id of get_database_schema
    rret,               \* rret[r]: what the call returned
    rfetch,             \* rfetch[r]: the call has sent a request upstream
    rans,               \* rans[r]: upstream's answer to the latest request of
                        \* r, with the parts of it the method reads
    firstId,            \* history: firstId[d] is what the first resolve of d
                        \* whose retrieve succeeded returned ("" before it)
    \* --- history, read by no step of the program
    asleepAtInvoke,     \* asleepAtInvoke[t][u]: 0, or attempt[u] + 1 when u was
                        \* in a backoff sleep as t called the wrapped function
    \* --- the error handler of the API boundary
    raised,             \* the DomainException a request handler raised
    response,           \* the JSONResponse handle_domain_exception built
    \* --- the stored tokens and the callers of NotionClientFactory
    tokens,             \* the notion_tokens collection, by ObjectId
    fpc,                \* fpc[c]: position of caller c in create_client
    farg,               \* farg[c]: its token_id argument
    fret,               \* fret[c]: the client it returned or the error raised
    \* --- cancellation of the task that runs a wrapped call
    cancelled,          \* cancelled[t]: CancelledError was thrown into task t
    \* --- history of the backoff sleeps
    sleptTime,          \* sleptTime[t]: the sum of the delays task t slept or
                        \* is sleeping, in ms
    \* --- NotionTaskService.list_tasks, its paging loop
    lpc,                \* position of the call: idle, loop, await, done
    lreq,               \* request.page and request.limit
    lupstream,          \* the number of items upstream has for the query
    lskip,              \* skip
    lcollected,         \* collected, as positions in upstream's sequence
    lcursor,            \* cursor
    lhas_more,          \* has_more_for_page
    lsent,              \* the page_size and start_cursor of the latest query
    lnext,              \* history: the next_cursor of the latest response
    lbatches,           \* history: the number of queries sent by the call
    lempty,             \* history: the number of empty batches it was served
    \* --- a NotionTaskService method before its upstream call
    spc,                \* position of the call: idle, assignee, build,
                        \* upstream, done
    sop,                \* the method: create_task or update_task
    sreq,               \* the request and whether a user mapping service is set
    sraised,            \* the class of what was raised inside the try block
    sres,               \* the class of what the method raised ("ok": it returned)
    scalls,             \* the pages.create / pages.update calls it has made
    \* --- the workspaces collection and the callers of WorkspaceRepository.create
    workspaces,         \* workspaces[k]: the number of documents with key k
    wpc,                \* wpc[c]: position of caller c in create
    wkey,               \* wkey[c]: the (platform, platform_id) of its workspace_data
    wres                \* wres[c]: "created", or the class of the error raised

retryVars == <<policy, fn, pc, attempt, delay, result, invoked, rlSeen, slept,
               hitsBy, lastUp, upTarget, notion_api_calls, rate_limit_hits>>

lockVars == <<locked, waiters, mpc, mwhich, mtmp>>

resolverVars == <<cache, rpc, rop, rdb, rsrc, rret, rfetch, rans, firstId>>

historyVars == <<asleepAtInvoke>>

handlerVars == <<raised, response>>

tokenVars == <<tokens, fpc, farg, fret>>

cancelVars == <<cancelled>>

clockVars == <<sleptTime>>

pagingVars == <<lpc, lreq, lupstream, lskip, lcollected, lcursor, lhas_more, lsent,
                lnext, lbatches, lempty>>

serviceVars == <<spc, sop, sreq, sraised, sres, scalls>>

workspaceVars == <<workspaces, wpc, wkey, wres>>

\* What the steps of the retry wrapper leave alone.
outsideRetry == <<lockVars, resolverVars, historyVars, handlerVars, tokenVars, cancelVars, clockVars, pagingVars, serviceVars, workspaceVars>>

\* What the steps of the metrics callers leave alone.
outsideMetrics ==
    <<policy, fn, pc, attempt, delay, result, invoked, rlSeen, slept, hitsBy, lastUp,
      upTarget, resolverVars, historyVars, handlerVars, tokenVars, cancelVars, clockVars, pagingVars, serviceVars, workspaceVars>>

\* What the steps of the resolver leave alone.
outsideResolver == <<retryVars, lockVars, historyVars, handlerVars, tokenVars, cancelVars, clockVars, pagingVars, serviceVars, workspaceVars>>

\* What the steps of the error handler leave alone.
outsideHandler == <<retryVars, lockVars, resolverVars, historyVars, tokenVars, cancelVars, clockVars, pagingVars, serviceVars, workspaceVars>>

\* What the steps of the token store and of the client factory leave alone.
outsideTokens == <<retryVars, lockVars, resolverVars, historyVars, handlerVars, cancelVars, clockVars, pagingVars, serviceVars, workspaceVars>>

\* What the cancellation of a task leaves alone, besides the retry wrapper.
outsideCancel == <<lockVars, resolverVars, historyVars, handlerVars, tokenVars, clockVars, pagingVars, serviceVars, workspaceVars>>

\* What a backoff that adds up its delay leaves alone, besides the retry wrapper.
outsideTimed == <<lockVars, resolverVars, historyVars, handlerVars, tokenVars, cancelVars, pagingVars, serviceVars, workspaceVars>>

\* What the steps of list_tasks leave alone.
outsidePaging == <<retryVars, lockVars, resolverVars, historyVars, handlerVars, tokenVars,
                   cancelVars, clockVars, serviceVars, workspaceVars>>

\* What the steps of a task-service method before its upstream call leave alone.
outsideService == <<retryVars, lockVars, resolverVars, historyVars, handlerVars, tokenVars,
                    cancelVars, clockVars, pagingVars, workspaceVars>>

\* What the steps of WorkspaceRepository.create leave alone.
outsideWorkspaces == <<retryVars, lockVars, resolverVars, historyVars, handlerVars, tokenVars,
                       cancelVars, clockVars, pagingVars, serviceVars>>

vars == <<retryVars, lockVars, resolverVars, historyVars, handlerVars, tokenVars, cancelVars, clockVars, pagingVars, serviceVars, workspaceVars>>

\* ------------------------------------------------- rate_limiter.py helpers
\* A variant that takes every status from 429 up as a rate limit.
IsRateLimitedAnyHigh(e) == e.status >= RateLimitStatus \/ e.marker

\* line 52: e.status == 429 or "rate_limit" in str(e.body).lower()
IsRateLimited(e) == e.status = RateLimitStatus \/ e.marker

\* lines 47-52, 83-90: the AttemptOutcome of one call of func.
Classify(out) ==
    IF out.kind = "ok" THEN "success"
    ELSE IF out.kind = "api" /\ IsRateLimited(out) THEN "rate_limited"
    ELSE "other_error"

\* Variants of the test of line 56 that are off by one.
HasAttemptsLeftShort(p, a) == a < p.max_retries - 1
HasAttemptsLeftLong(p, a) == a <= p.max_retries

\* line 56: attempt < max_retries
HasAttemptsLeft(p, a) == a < p.max_retries

\* A variant that counts attempts from 1.
BackoffBaseOneBased(p, a) == Min(p.initial_delay * Pow2(a + 1), p.max_delay)

\* lines 58-61: min(initial_delay * 2 ** attempt, max_delay)
BackoffBase(p, a) == Min(p.initial_delay * Pow2(a), p.max_delay)

\* A variant that ignores jitter_factor and jitters by the whole delay.
WithFullJitter(d, jf, u) ==
    IF jf > 0 THEN Max(0, d + (d * 100 * u) \div 1000) ELSE d

\* lines 64-66: delay + delay * jitter_factor * uniform(-1, 1), floored at 0
\* (jf in percent and u in tenths: the product is divided by 1000).
WithJitter(d, jf, u) ==
    IF jf > 0 THEN Max(0, d + (d * jf * u) \div 1000) ELSE d

\* --------------------------------------------- the wrapped function (func)
\* A NotionTaskService method catches what the client raises and raises a
\* domain error instead; any other wrapped function lets it through. For a
\* 400, create_task, update_task and delete_task call e.body.get (lines 123,
\* 471, 589), which a str does not have: the AttributeError leaves the except
\* clause as it is.
ServiceOutcome(f, up) ==
    IF up.kind = "ok" THEN up
    ELSE IF up.kind = "api" THEN
        IF up.status = NotFoundStatus THEN Outcome("NotFoundError", 0, FALSE, 0)
        ELSE IF up.status = BadRequestStatus /\ f # "list_tasks"
            THEN IF up.body = "dict"
                   THEN Outcome("ValidationError", 0, FALSE, 0)
                   ELSE Outcome("AttributeError", 0, FALSE, 0)
        ELSE Outcome("NotionAPIError", up.status, FALSE, 0)
    ELSE Outcome("InternalError", 0, FALSE, 0)

\* request.notion_database_id and task_id of the requests the model makes.
RequestDatabaseId == "db-1"
RequestTaskId == "page-1"

\* The id the upstream call of a service method names: create_task (line
\* 106) and list_tasks (line 229) pass request.notion_database_id as it is,
\* update_task and delete_task pass the id of the page.
UpstreamTarget(f) ==
    IF f \in {"create_task", "list_tasks"} THEN RequestDatabaseId
    ELSE IF f \in ServiceOps THEN RequestTaskId
    ELSE ""

FuncOutcome(f, up) == IF f \in ServiceOps THEN ServiceOutcome(f, up) ELSE up

PolicyOf(f) == IF f \in ServiceOps THEN ServicePolicy ELSE policy

\* ------------------------------------------------------------------- Init
InitRetry ==
    /\ \/ fn = "generic" /\ policy \in Policies
       \/ fn \in ServiceOps /\ policy = ServicePolicy
    /\ pc = [t \in Tasks |-> "idle"]
    /\ attempt = [t \in Tasks |-> 0]
    /\ delay = [t \in Tasks |-> 0]
    /\ result = [t \in Tasks |-> NoOutcome]
    /\ invoked = [t \in Tasks |-> 0]
    /\ rlSeen = [t \in Tasks |-> 0]
    /\ slept = [t \in Tasks |-> 0]
    /\ hitsBy = [t \in Tasks |-> 0]
    /\ lastUp = [t \in Tasks |-> NoOutcome]
    /\ upTarget = [t \in Tasks |-> ""]
    /\ notion_api_calls = 0
    /\ rate_limit_hits = 0

InitHistory == asleepAtInvoke = [t \in Tasks |-> [u \in Tasks |-> 0]]

\* ------------------------------------------------------ with_retry.wrapper
\* A task calls the wrapped function: the for loop starts at attempt 0.
\* range(max_retries + 1) is empty only for a negative max_retries, and then
\* the wrapper falls through to the RuntimeError of line 96.
Begin(t) ==
    /\ pc[t] = "idle"
    /\ IF PolicyOf(fn).max_retries + 1 > 0
         THEN /\ pc' = [pc EXCEPT ![t] = "start"]
              /\ result' = result
         ELSE /\ pc' = [pc EXCEPT ![t] = "done"]
              /\ result' = [result EXCEPT ![t] = Outcome("RuntimeError", 0, FALSE, 0)]
    /\ attempt' = [attempt EXCEPT ![t] = 0]
    /\ UNCHANGED <<upTarget, policy, fn, delay, invoked, rlSeen, slept, hitsBy, lastUp,
                   notion_api_calls, rate_limit_hits>>

Invoke(t) == Begin(t) /\ UNCHANGED outsideRetry

\* A variant that counts the call once per invocation, not once per attempt.
IncrementNotionApiCallsOnce(t) ==
    /\ pc[t] = "start"
    /\ notion_api_calls' = IF attempt[t] = 0 THEN notion_api_calls + 1 ELSE notion_api_calls
    /\ pc' = [pc EXCEPT ![t] = "call"]
    /\ UNCHANGED <<upTarget, policy, fn, attempt, delay, result, invoked, rlSeen, slept,
                   hitsBy, lastUp, rate_limit_hits>>
    /\ UNCHANGED outsideRetry

\* line 46: await metrics.increment_notion_api_calls()
IncrementNotionApiCalls(t) ==
    /\ pc[t] = "start"
    /\ notion_api_calls' = notion_api_calls + 1
    /\ pc' = [pc EXCEPT ![t] = "call"]
    /\ UNCHANGED <<upTarget, policy, fn, attempt, delay, result, invoked, rlSeen, slept,
                   hitsBy, lastUp, rate_limit_hits>>
    /\ UNCHANGED outsideRetry

\* line 47: func(*args, **kwargs) is called and awaited.
OpStart(t) ==
    /\ pc[t] = "call"
    /\ invoked' = [invoked EXCEPT ![t] = @ + 1]
    /\ pc' = [pc EXCEPT ![t] = "in_op"]
    /\ lastUp' = [lastUp EXCEPT ![t] = NoOutcome]
    /\ upTarget' = [upTarget EXCEPT ![t] = UpstreamTarget(fn)]
    /\ UNCHANGED <<policy, fn, attempt, delay, result, rlSeen, slept, hitsBy,
                   notion_api_calls, rate_limit_hits>>
    /\ UNCHANGED outsideRetry

\* lines 47-52, 83-90: func returns or raises; the wrapper returns the value,
\* goes on to the rate-limit branch, or re-raises what func raised.
OpEnd(t) ==
    /\ pc[t] = "in_op"
    /\ \E up \in UpstreamAnswers(invoked[t]) :
        LET out == FuncOutcome(fn, up) IN
        /\ lastUp' = [lastUp EXCEPT ![t] = up]
        /\ IF Classify(out) = "rate_limited"
             THEN /\ pc' = [pc EXCEPT ![t] = "hit"]
                  /\ rlSeen' = [rlSeen EXCEPT ![t] = @ + 1]
                  /\ result' = result
             ELSE /\ pc' = [pc EXCEPT ![t] = "done"]
                  /\ rlSeen' = rlSeen
                  /\ result' = [result EXCEPT ![t] = out]
    /\ UNCHANGED <<upTarget, policy, fn, attempt, delay, invoked, slept, hitsBy,
                   notion_api_calls, rate_limit_hits>>
    /\ UNCHANGED outsideRetry

\* A variant that counts a hit only when a retry will follow.
IncrementRateLimitHitsIfRetrying(t) ==
    /\ pc[t] = "hit"
    /\ rate_limit_hits' = IF HasAttemptsLeft(PolicyOf(fn), attempt[t])
                            THEN rate_limit_hits + 1 ELSE rate_limit_hits
    /\ hitsBy' = [hitsBy EXCEPT ![t] = @ + 1]
    /\ pc' = [pc EXCEPT ![t] = "backoff"]
    /\ UNCHANGED <<upTarget, policy, fn, attempt, delay, result, invoked, rlSeen, slept,
                   lastUp, notion_api_calls>>
    /\ UNCHANGED outsideRetry

\* line 54: await metrics.increment_rate_limit_hits()
IncrementRateLimitHits(t) ==
    /\ pc[t] = "hit"
    /\ rate_limit_hits' = rate_limit_hits + 1
    /\ hitsBy' = [hitsBy EXCEPT ![t] = @ + 1]
    /\ pc' = [pc EXCEPT ![t] = "backoff"]
    /\ UNCHANGED <<upTarget, policy, fn, attempt, delay, result, invoked, rlSeen, slept,
                   lastUp, notion_api_calls>>
    /\ UNCHANGED outsideRetry

\* lines 56-73: attempts are left: compute the delay and start the sleep.
BackoffStep(t) ==
    /\ pc[t] = "backoff"
    /\ HasAttemptsLeft(PolicyOf(fn), attempt[t])
    /\ \E u \in JitterDraws :
        delay' = [delay EXCEPT ![t] =
                    WithJitter(BackoffBase(PolicyOf(fn), attempt[t]),
                               PolicyOf(fn).jitter_factor, u)]
    /\ slept' = [slept EXCEPT ![t] = @ + 1]
    /\ pc' = [pc EXCEPT ![t] = "sleep"]
    /\ UNCHANGED <<upTarget, policy, fn, attempt, result, invoked, rlSeen, hitsBy, lastUp,
                   notion_api_calls, rate_limit_hits>>

Backoff(t) == BackoffStep(t) /\ UNCHANGED outsideRetry

\* lines 75-82: no attempt is left: raise RateLimitError.
Exhausted(t) ==
    /\ pc[t] = "backoff"
    /\ ~HasAttemptsLeft(PolicyOf(fn), attempt[t])
    /\ result' = [result EXCEPT ![t] = Outcome("RateLimitError", 0, FALSE, 0)]
    /\ pc' = [pc EXCEPT ![t] = "done"]
    /\ UNCHANGED <<upTarget, policy, fn, attempt, delay, invoked, rlSeen, slept, hitsBy, lastUp,
                   notion_api_calls, rate_limit_hits>>
    /\ UNCHANGED outsideRetry

\* lines 73-74, 43: the sleep ends; continue with the next attempt. The loop
\* ends when range(max_retries + 1) is used up, and lines 93-94 then raise
\* the last error.
Wake(t) ==
    /\ pc[t] = "sleep"
    /\ attempt' = [attempt EXCEPT ![t] = @ + 1]
    /\ delay' = [delay EXCEPT ![t] = 0]
    /\ IF attempt[t] + 1 < PolicyOf(fn).max_retries + 1
         THEN /\ pc' = [pc EXCEPT ![t] = "start"]
              /\ result' = result
         ELSE /\ pc' = [pc EXCEPT ![t] = "done"]
              /\ result' = [result EXCEPT ![t] = Outcome("last_error", 0, FALSE, 0)]
    /\ UNCHANGED <<upTarget, policy, fn, invoked, rlSeen, slept, hitsBy, lastUp,
                   notion_api_calls, rate_limit_hits>>
    /\ UNCHANGED outsideRetry

NextRetry ==
    \E t \in Tasks :
        \/ Invoke(t)
        \/ IncrementNotionApiCalls(t)
        \/ OpStart(t)
        \/ OpEnd(t)
        \/ IncrementRateLimitHits(t)
        \/ Backoff(t)
        \/ Exhausted(t)
        \/ Wake(t)

\* ------------------------------------------- MetricsCollector, step by step
\* The decorator's default arguments (lines 20-23).
DefaultPolicy ==
    [max_retries |-> 4, initial_delay |-> 1000, max_delay |-> 8000, jitter_factor |-> 20]

\* No task is inside a wrapped call.
RetryQuiet ==
    /\ fn = "generic" /\ policy = DefaultPolicy
    /\ pc = [t \in Tasks |-> "idle"]
    /\ attempt = [t \in Tasks |-> 0]
    /\ delay = [t \in Tasks |-> 0]
    /\ result = [t \in Tasks |-> NoOutcome]
    /\ invoked = [t \in Tasks |-> 0]
    /\ rlSeen = [t \in Tasks |-> 0]
    /\ slept = [t \in Tasks |-> 0]
    /\ hitsBy = [t \in Tasks |-> 0]
    /\ lastUp = [t \in Tasks |-> NoOutcome]
    /\ upTarget = [t \in Tasks |-> ""]

\* MetricsCollector.__init__ (lines 18-20); no caller is in a method.
InitLock ==
    /\ locked = FALSE
    /\ waiters = <<>>
    /\ mpc = [c \in Callers |-> "idle"]
    /\ mwhich = [c \in Callers |-> "calls"]
    /\ mtmp = [c \in Callers |-> 0]

\* A variant of the lock that lets every caller in.
LockFreeAlways == TRUE

\* asyncio.Lock.acquire takes the lock at once when it is free and nobody
\* is queued for it.
LockFree == ~locked /\ waiters = <<>>

\* lines 34 and 39, async with self._lock: caller c calls one of the two
\* increment methods and takes the lock or queues for it.
Enter(c) ==
    /\ mpc[c] = "idle"
    /\ \E w \in {"calls", "hits"} : mwhich' = [mwhich EXCEPT ![c] = w]
    /\ IF LockFree
         THEN /\ locked' = TRUE
              /\ waiters' = waiters
              /\ mpc' = [mpc EXCEPT ![c] = "load"]
         ELSE /\ locked' = locked
              /\ waiters' = Append(waiters, c)
              /\ mpc' = [mpc EXCEPT ![c] = "wait"]
    /\ UNCHANGED <<mtmp, notion_api_calls, rate_limit_hits>>
    /\ UNCHANGED outsideMetrics

\* lines 34 and 39: the lock was released and c is first in the queue.
Resume(c) ==
    /\ mpc[c] = "wait"
    /\ ~locked /\ waiters # <<>> /\ Head(waiters) = c
    /\ locked' = TRUE
    /\ waiters' = Tail(waiters)
    /\ mpc' = [mpc EXCEPT ![c] = "load"]
    /\ UNCHANGED <<mwhich, mtmp, notion_api_calls, rate_limit_hits>>
    /\ UNCHANGED outsideMetrics

\* lines 35 and 40, the read of  self._x += 1.
Load(c) ==
    /\ mpc[c] = "load"
    /\ mtmp' = [mtmp EXCEPT ![c] =
                  IF mwhich[c] = "calls" THEN notion_api_calls ELSE rate_limit_hits]
    /\ mpc' = [mpc EXCEPT ![c] = "store"]
    /\ UNCHANGED <<locked, waiters, mwhich, notion_api_calls, rate_limit_hits>>
    /\ UNCHANGED outsideMetrics

\* lines 35 and 40, the write of  self._x += 1.
Store(c) ==
    /\ mpc[c] = "store"
    /\ IF mwhich[c] = "calls"
         THEN notion_api_calls' = mtmp[c] + 1 /\ rate_limit_hits' = rate_limit_hits
         ELSE rate_limit_hits' = mtmp[c] + 1 /\ notion_api_calls' = notion_api_calls
    /\ mpc' = [mpc EXCEPT ![c] = "release"]
    /\ UNCHANGED <<locked, waiters, mwhich, mtmp>>
    /\ UNCHANGED outsideMetrics

\* the end of the async with block: the lock is released.
Release(c) ==
    /\ mpc[c] = "release"
    /\ locked' = FALSE
    /\ mpc' = [mpc EXCEPT ![c] = "done"]
    /\ UNCHANGED <<waiters, mwhich, mtmp, notion_api_calls, rate_limit_hits>>
    /\ UNCHANGED outsideMetrics

CallerNext(c) == Enter(c) \/ Resume(c) \/ Load(c) \/ Store(c) \/ Release(c)

NextMetrics == \E c \in Callers : CallerNext(c)

\* ------------------------- with_retry.wrapper and MetricsCollector._lock
\* The wrapper with its two awaits of MetricsCollector taken apart: the task
\* takes self._lock or queues for it, and then adds one and leaves the
\* async with block, which has no await inside.
\* What the steps of the wrapper leave alone when they use the lock.
outsideLocked == <<mpc, mwhich, mtmp, resolverVars, handlerVars, tokenVars, cancelVars, clockVars, pagingVars, serviceVars, workspaceVars>>

\* The wrapped function is called; the history notes who is asleep.
InvokeObserved(t) ==
    /\ Begin(t)
    /\ asleepAtInvoke' = [asleepAtInvoke EXCEPT ![t] =
            [u \in Tasks |-> IF pc[u] = "sleep" THEN attempt[u] + 1 ELSE 0]]
    /\ UNCHANGED <<lockVars, resolverVars, handlerVars, tokenVars, cancelVars, clockVars, pagingVars, serviceVars, workspaceVars>>

\* rate_limiter.py lines 46 and 54 calling metrics.py lines 34 and 39,
\* async with self._lock: the lock is taken, or the task queues for it.
AcquireLock(t) ==
    /\ pc[t] \in {"start", "hit"}
    /\ IF LockFree
         THEN /\ locked' = TRUE
              /\ waiters' = waiters
              /\ pc' = [pc EXCEPT ![t] = IF pc[t] = "start" THEN "calls_locked" ELSE "hits_locked"]
         ELSE /\ locked' = locked
              /\ waiters' = Append(waiters, t)
              /\ pc' = [pc EXCEPT ![t] = IF pc[t] = "start" THEN "calls_wait" ELSE "hits_wait"]
    /\ UNCHANGED <<upTarget, policy, fn, attempt, delay, result, invoked, rlSeen, slept,
                   hitsBy, lastUp, notion_api_calls, rate_limit_hits>>
    /\ UNCHANGED <<outsideLocked, historyVars>>

\* metrics.py lines 34 and 39: the lock was released and t is first in line.
LockGranted(t) ==
    /\ pc[t] \in {"calls_wait", "hits_wait"}
    /\ ~locked /\ waiters # <<>> /\ Head(waiters) = t
    /\ locked' = TRUE
    /\ waiters' = Tail(waiters)
    /\ pc' = [pc EXCEPT ![t] = IF pc[t] = "calls_wait" THEN "calls_locked" ELSE "hits_locked"]
    /\ UNCHANGED <<upTarget, policy, fn, attempt, delay, result, invoked, rlSeen, slept,
                   hitsBy, lastUp, notion_api_calls, rate_limit_hits>>
    /\ UNCHANGED <<outsideLocked, historyVars>>

\* metrics.py lines 34-35: add one to _notion_api_calls and release the lock.
LockedIncrementNotionApiCalls(t) ==
    /\ pc[t] = "calls_locked"
    /\ notion_api_calls' = notion_api_calls + 1
    /\ locked' = FALSE
    /\ pc' = [pc EXCEPT ![t] = "call"]
    /\ UNCHANGED <<upTarget, policy, fn, attempt, delay, result, invoked, rlSeen, slept,
                   hitsBy, lastUp, rate_limit_hits, waiters>>
    /\ UNCHANGED <<outsideLocked, historyVars>>

\* A variant that keeps the lock over the backoff sleep that follows.
LockedIncrementRateLimitHitsHolding(t) ==
    /\ pc[t] = "hits_locked"
    /\ rate_limit_hits' = rate_limit_hits + 1
    /\ hitsBy' = [hitsBy EXCEPT ![t] = @ + 1]
    /\ locked' = HasAttemptsLeft(PolicyOf(fn), attempt[t])
    /\ pc' = [pc EXCEPT ![t] = "backoff"]
    /\ UNCHANGED <<upTarget, policy, fn, attempt, delay, result, invoked, rlSeen, slept,
                   lastUp, notion_api_calls, waiters>>
    /\ UNCHANGED <<outsideLocked, historyVars>>

\* metrics.py lines 39-40: add one to _rate_limit_hits and release the lock.
LockedIncrementRateLimitHits(t) ==
    /\ pc[t] = "hits_locked"
    /\ rate_limit_hits' = rate_limit_hits + 1
    /\ hitsBy' = [hitsBy EXCEPT ![t] = @ + 1]
    /\ locked' = FALSE
    /\ pc' = [pc EXCEPT ![t] = "backoff"]
    /\ UNCHANGED <<upTarget, policy, fn, attempt, delay, result, invoked, rlSeen, slept,
                   lastUp, notion_api_calls, waiters>>
    /\ UNCHANGED <<outsideLocked, historyVars>>

\* The steps task t can take, other than the end of its sleep.
RunLocked(t) ==
    \/ InvokeObserved(t)
    \/ AcquireLock(t)
    \/ LockGranted(t)
    \/ LockedIncrementNotionApiCalls(t)
    \/ OpStart(t)
    \/ OpEnd(t)
    \/ LockedIncrementRateLimitHits(t)
    \/ Backoff(t)
    \/ Exhausted(t)

NextLocked == \E t \in Tasks : RunLocked(t) \/ Wake(t)

\* -------------------------------------------------------- DatabaseResolver
DbIds == {"db-1", "db-2"}

\* The database the concurrent tasks all ask for.
SharedDbIds == {"db-1"}

\* A schema is a sequence (a dict keeps its insertion order) of fields.
\* detail: "full" for what the database reports, "none" for what is inferred
\* from a page, "value" for a property of a page.
Field(n, i, ty, dt) == [name |-> n, id |-> i, type |-> ty, detail |-> dt]

DeclaredSchema == <<Field("Task", "t1", "title", "full"), Field("Status", "s1", "status", "full")>>
UntitledSchema == <<Field("Status", "s1", "status", "full")>>

PageA == <<Field("Name", "n1", "title", "value"), Field("Status", "s2", "status", "value")>>
PageB == <<Field("Due", "d1", "date", "value"), Field("Title", "t2", "title", "value")>>
PageNoTitle == <<Field("Status", "s2", "status", "value")>>

\* How a request can fail: an error response with a status, or, with status
\* 0, no response at all (get_notion_client or the transport raised).
FailureStatuses == {NotFoundStatus, RateLimitStatus, 0}

\* What databases.retrieve can answer: a failure, or the data sources, the
\* properties and the title of the database. title: "text" for
\* [{plain_text: ...}], "absent" for no title key, "empty" for an empty list.
RetrieveAnswers ==
    [kind : {"fail"}, status : FailureStatuses, data_sources : {<<>>},
     properties : {<<>>}, title : {"absent"}]
    \cup [kind : {"ok"}, status : {200},
          data_sources : {<<>>, <<"ds-a">>, <<"ds-a", "ds-b">>},
          properties : {<<>>, DeclaredSchema, UntitledSchema},
          title : {"text", "absent", "empty"}]

\* What data_sources.query(page_size=5) can answer: a failure or some pages.
QueryAnswers ==
    [kind : {"fail"}, status : FailureStatuses, results : {<<>>}]
    \cup [kind : {"ok"}, status : {200},
          results : {<<>>, <<PageA, PageB, PageB>>, <<PageB>>, <<PageNoTitle>>,
                     << <<>>, PageA >>}]

NoEntry ==
    [present |-> FALSE, has_ds |-> FALSE, data_source_id |-> "",
     has_props |-> FALSE, properties |-> <<>>]

EmptyCache == [d \in DbIds |-> NoEntry]

NoReturn == [id |-> "", schema |-> <<>>, name |-> ""]

\* What resolve_database_id returns.
IdReturn(i) == [id |-> i, schema |-> <<>>, name |-> ""]

\* No answer yet to the retrieve of resolve_database_id.
NoAnswer ==
    [req |-> "none", kind |-> "none", status |-> 0, data_sources |-> <<>>,
     title |-> "absent", properties |-> <<>>, results |-> <<>>]

\* The answer to the retrieve of resolve_database_id (lines 40-72), which
\* reads data_sources and title.
ResolveAnswered(ans) ==
    [req |-> "resolve", kind |-> ans.kind, status |-> ans.status,
     data_sources |-> ans.data_sources, title |-> ans.title,
     properties |-> <<>>, results |-> <<>>]

\* The answer to the retrieve of get_database_schema (lines 104-106), which
\* reads properties.
RetrieveAnswered(ans) ==
    [req |-> "retrieve", kind |-> ans.kind, status |-> ans.status,
     data_sources |-> <<>>, title |-> "absent",
     properties |-> ans.properties, results |-> <<>>]

\* The answer to the query of _infer_schema_from_pages (lines 143-148).
QueryAnswered(ans) ==
    [req |-> "query", kind |-> ans.kind, status |-> ans.status,
     data_sources |-> <<>>, title |-> "absent",
     properties |-> <<>>, results |-> ans.results]

\* __init__ (line 16); no task is in a method.
InitResolver ==
    /\ cache = EmptyCache
    /\ rpc = [r \in Resolvers |-> "idle"]
    /\ rop = [r \in Resolvers |-> "resolve"]
    /\ rdb = [r \in Resolvers |-> "db-1"]
    /\ rsrc = [r \in Resolvers |-> ""]
    /\ rret = [r \in Resolvers |-> NoReturn]
    /\ rfetch = [r \in Resolvers |-> FALSE]
    /\ rans = [r \in Resolvers |-> NoAnswer]
    /\ firstId = [d \in DbIds |-> ""]

\* line 34: cached.get('data_source_id', database_id)
CachedSource(entry, d) == IF entry.has_ds THEN entry.data_source_id ELSE d

\* A variant without the except clause of lines 77-80: a failure leaves the
\* caller without an id.
ResolveOutcomeUncaught(d, ans) ==
    IF ans.kind = "fail" \/ ans.title = "empty"
      THEN [cached |-> FALSE, id |-> "", entry |-> NoEntry]
    ELSE IF ans.data_sources # <<>>
      THEN [cached |-> TRUE, id |-> ans.data_sources[1],
            entry |-> [present |-> TRUE, has_ds |-> TRUE,
                       data_source_id |-> ans.data_sources[1],
                       has_props |-> FALSE, properties |-> <<>>]]
    ELSE [cached |-> TRUE, id |-> d,
          entry |-> [present |-> TRUE, has_ds |-> TRUE, data_source_id |-> d,
                     has_props |-> FALSE, properties |-> <<>>]]

\* A variant that caches the database id as its own source when the
\* retrieve failed.
ResolveOutcomeFallbackCached(d, ans) ==
    IF ans.kind = "ok" /\ ans.title # "empty" /\ ans.data_sources # <<>>
      THEN [cached |-> TRUE, id |-> ans.data_sources[1],
            entry |-> [present |-> TRUE, has_ds |-> TRUE,
                       data_source_id |-> ans.data_sources[1],
                       has_props |-> FALSE, properties |-> <<>>]]
    ELSE [cached |-> TRUE, id |-> d,
          entry |-> [present |-> TRUE, has_ds |-> TRUE, data_source_id |-> d,
                     has_props |-> FALSE, properties |-> <<>>]]

\* lines 36-80: what resolve_database_id makes of the answer to its
\* retrieve: the id it returns and, when it caches, the entry it stores.
\* db_info.get('title', [{}])[0] raises IndexError for an empty title list,
\* and the except clause then returns the database id.
ResolveOutcome(d, ans) ==
    IF ans.kind = "fail" \/ ans.title = "empty"
      THEN [cached |-> FALSE, id |-> d, entry |-> NoEntry]
    ELSE IF ans.data_sources # <<>>
      THEN [cached |-> TRUE, id |-> ans.data_sources[1],
            entry |-> [present |-> TRUE, has_ds |-> TRUE,
                       data_source_id |-> ans.data_sources[1],
                       has_props |-> FALSE, properties |-> <<>>]]
    ELSE [cached |-> TRUE, id |-> d,
          entry |-> [present |-> TRUE, has_ds |-> TRUE, data_source_id |-> d,
                     has_props |-> FALSE, properties |-> <<>>]]

\* A variant that takes the fields of the last page, not of the first.
InferSchemaFromLastPage(ans) ==
    IF ans.kind = "fail" THEN <<>>
    ELSE IF ans.results = <<>> THEN <<>>
    ELSE [i \in 1..Len(ans.results[Len(ans.results)]) |->
            Field(ans.results[Len(ans.results)][i].name, ans.results[Len(ans.results)][i].id,
                  ans.results[Len(ans.results)][i].type, "none")]

\* lines 139-184: the schema inferred from the pages of a query.
InferSchemaFromPages(ans) ==
    IF ans.kind = "fail" THEN <<>>
    ELSE IF ans.results = <<>> THEN <<>>
    ELSE [i \in 1..Len(ans.results[1]) |->
            Field(ans.results[1][i].name, ans.results[1][i].id,
                  ans.results[1][i].type, "none")]

\* lines 113-117: the cache with the properties of database d stored.
WithProperties(c, d, props) ==
    IF c[d].present
      THEN [c EXCEPT ![d].has_props = TRUE, ![d].properties = props]
      ELSE [c EXCEPT ![d] = [present |-> TRUE, has_ds |-> FALSE, data_source_id |-> "",
                             has_props |-> TRUE, properties |-> props]]

\* A variant that takes the first field, whatever its type.
TitlePropertyFirstField(schema) ==
    IF schema = <<>> THEN "Name" ELSE Head(schema).name

\* lines 198-206: the first field of type title, or "Name".
RECURSIVE TitleProperty(_)
TitleProperty(schema) ==
    IF schema = <<>> THEN "Name"
    ELSE IF Head(schema).type = "title" THEN Head(schema).name
    ELSE TitleProperty(Tail(schema))

\* What get_database_schema returns, and with it what
\* get_title_property_name, which only calls it (line 196) and scans the
\* result, returns to its caller.
SchemaReturn(props) == [id |-> "", schema |-> props, name |-> TitleProperty(props)]

\* resolve_database_id(d), lines 31-40: a cache hit returns; a miss sends
\* the retrieve and waits for the answer.
CallResolve(r, d) ==
    /\ rpc[r] = "idle"
    /\ rop' = [rop EXCEPT ![r] = "resolve"]
    /\ rdb' = [rdb EXCEPT ![r] = d]
    /\ IF cache[d].present
         THEN /\ rpc' = [rpc EXCEPT ![r] = "done"]
              /\ rret' = [rret EXCEPT ![r] = IdReturn(CachedSource(cache[d], d))]
              /\ rfetch' = [rfetch EXCEPT ![r] = FALSE]
         ELSE /\ rpc' = [rpc EXCEPT ![r] = "r_retrieve"]
              /\ rret' = [rret EXCEPT ![r] = NoReturn]
              /\ rfetch' = [rfetch EXCEPT ![r] = TRUE]
    /\ UNCHANGED <<cache, rsrc, rans, firstId>>
    /\ UNCHANGED outsideResolver

\* get_database_schema(d), lines 95-104, called directly or by
\* get_title_property_name (line 196): cached properties are returned;
\* otherwise the database is resolved first (from the cache, or by a
\* retrieve) and then retrieved.
CallSchema(r, d) ==
    /\ rpc[r] = "idle"
    /\ rop' = [rop EXCEPT ![r] = "schema"]
    /\ rdb' = [rdb EXCEPT ![r] = d]
    /\ IF cache[d].present /\ cache[d].has_props
         THEN /\ rpc' = [rpc EXCEPT ![r] = "done"]
              /\ rret' = [rret EXCEPT ![r] = SchemaReturn(cache[d].properties)]
              /\ rfetch' = [rfetch EXCEPT ![r] = FALSE]
              /\ rsrc' = rsrc
         ELSE IF cache[d].present
         THEN /\ rpc' = [rpc EXCEPT ![r] = "s_retrieve"]
              /\ rret' = [rret EXCEPT ![r] = NoReturn]
              /\ rfetch' = [rfetch EXCEPT ![r] = TRUE]
              /\ rsrc' = [rsrc EXCEPT ![r] = CachedSource(cache[d], d)]
         ELSE /\ rpc' = [rpc EXCEPT ![r] = "r_retrieve"]
              /\ rret' = [rret EXCEPT ![r] = NoReturn]
              /\ rfetch' = [rfetch EXCEPT ![r] = TRUE]
              /\ rsrc' = rsrc
    /\ UNCHANGED <<cache, rans, firstId>>
    /\ UNCHANGED outsideResolver

\* resolve_database_id, lines 40-80: the retrieve is answered. The entry
\* is stored whole; resolve_database_id returns, or get_database_schema goes
\* on to its own retrieve (lines 100-104).
ResolveAnswer(r) ==
    /\ rpc[r] = "r_retrieve"
    /\ \E ans \in RetrieveAnswers :
        LET out == ResolveOutcome(rdb[r], ans) IN
        /\ cache' = IF out.cached THEN [cache EXCEPT ![rdb[r]] = out.entry] ELSE cache
        /\ rans' = [rans EXCEPT ![r] = ResolveAnswered(ans)]
        /\ firstId' = IF ans.kind = "ok" /\ firstId[rdb[r]] = ""
                         THEN [firstId EXCEPT ![rdb[r]] = out.id] ELSE firstId
        /\ IF rop[r] = "resolve"
             THEN /\ rpc' = [rpc EXCEPT ![r] = "done"]
                  /\ rret' = [rret EXCEPT ![r] = IdReturn(out.id)]
                  /\ rsrc' = rsrc
             ELSE /\ rpc' = [rpc EXCEPT ![r] = "s_retrieve"]
                  /\ rsrc' = [rsrc EXCEPT ![r] = out.id]
                  /\ rret' = rret
    /\ UNCHANGED <<rop, rdb, rfetch>>
    /\ UNCHANGED outsideResolver

\* get_database_schema, lines 104-123: the retrieve is answered. Properties
\* that are not empty are cached and returned; empty ones start the query of
\* _infer_schema_from_pages (lines 140-146); a failure returns {}.
SchemaAnswer(r) ==
    /\ rpc[r] = "s_retrieve"
    /\ \E ans \in RetrieveAnswers :
        /\ rans' = [rans EXCEPT ![r] = RetrieveAnswered(ans)]
        /\ IF ans.kind = "fail"
             THEN /\ rpc' = [rpc EXCEPT ![r] = "done"]
                  /\ rret' = [rret EXCEPT ![r] = SchemaReturn(<<>>)]
                  /\ rsrc' = [rsrc EXCEPT ![r] = ""]
                  /\ cache' = cache
           ELSE IF ans.properties # <<>>
             THEN /\ rpc' = [rpc EXCEPT ![r] = "done"]
                  /\ rret' = [rret EXCEPT ![r] = SchemaReturn(ans.properties)]
                  /\ cache' = WithProperties(cache, rdb[r], ans.properties)
                  /\ rsrc' = [rsrc EXCEPT ![r] = ""]
           ELSE /\ rpc' = [rpc EXCEPT ![r] = "s_query"]
                /\ UNCHANGED <<cache, rret, rsrc>>
    /\ UNCHANGED <<rop, rdb, rfetch, firstId>>
    /\ UNCHANGED outsideResolver

\* _infer_schema_from_pages, lines 143-184, and get_database_schema, lines
\* 111-119: the query is answered; what was inferred is cached and returned.
QueryAnswer(r) ==
    /\ rpc[r] = "s_query"
    /\ \E ans \in QueryAnswers :
        LET props == InferSchemaFromPages(ans) IN
        /\ cache' = WithProperties(cache, rdb[r], props)
        /\ rret' = [rret EXCEPT ![r] = SchemaReturn(props)]
        /\ rans' = [rans EXCEPT ![r] = QueryAnswered(ans)]
    /\ rpc' = [rpc EXCEPT ![r] = "done"]
    /\ rsrc' = [rsrc EXCEPT ![r] = ""]
    /\ UNCHANGED <<rop, rdb, rfetch, firstId>>
    /\ UNCHANGED outsideResolver

\* The caller has the result and may call again.
Return(r) ==
    /\ rpc[r] = "done"
    /\ rpc' = [rpc EXCEPT ![r] = "idle"]
    /\ rret' = [rret EXCEPT ![r] = NoReturn]
    /\ rop' = [rop EXCEPT ![r] = "resolve"]
    /\ rdb' = [rdb EXCEPT ![r] = "db-1"]
    /\ rfetch' = [rfetch EXCEPT ![r] = FALSE]
    /\ rans' = [rans EXCEPT ![r] = NoAnswer]
    /\ UNCHANGED <<cache, rsrc, firstId>>
    /\ UNCHANGED outsideResolver

\* clear_cache, lines 208-210.
ClearCache ==
    /\ cache # EmptyCache
    /\ cache' = EmptyCache
    /\ firstId' = [d \in DbIds |-> ""]
    /\ UNCHANGED <<rpc, rop, rdb, rsrc, rret, rfetch, rans>>
    /\ UNCHANGED outsideResolver

\* No call other than one of r is in progress.
OthersIdle(r) == \A q \in Resolvers \ {r} : rpc[q] = "idle"

\* The resolver with its callers taking turns: a call is made when every
\* earlier one has returned.
NextResolverSeq ==
    \/ \E r \in Resolvers, d \in DbIds : OthersIdle(r) /\ CallResolve(r, d)
    \/ \E r \in Resolvers, d \in DbIds : OthersIdle(r) /\ CallSchema(r, d)
    \/ \E r \in Resolvers : ResolveAnswer(r)
    \/ \E r \in Resolvers : SchemaAnswer(r)
    \/ \E r \in Resolvers : QueryAnswer(r)
    \/ \E r \in Resolvers : Return(r)
    \/ ClearCache

\* The resolver called by concurrent tasks for the database they share.
NextResolver ==
    \/ \E r \in Resolvers, d \in SharedDbIds : CallResolve(r, d)
    \/ \E r \in Resolvers, d \in SharedDbIds : CallSchema(r, d)
    \/ \E r \in Resolvers : ResolveAnswer(r)
    \/ \E r \in Resolvers : SchemaAnswer(r)
    \/ \E r \in Resolvers : QueryAnswer(r)
    \/ \E r \in Resolvers : Return(r)
    \/ ClearCache

\* ------------------------------------- exceptions.py and error_handler.py
\* A DomainException: its class, its message, the keys of its details and,
\* for a NotionAPIError, its status_code (0 for None).
Exception(k, m, d, sc) == [kind |-> k, message |-> m, details |-> d, status_code |-> sc]

NoException == Exception("none", "", {}, 0)

\* exceptions.py lines 16-22
ValidationErrorOf(m, field) ==
    Exception("ValidationError", m, IF field # "" THEN {"field"} ELSE {}, 0)

\* exceptions.py lines 28-36
NotFoundErrorOf(entity_type) ==
    Exception("NotFoundError", entity_type \o " with ID 'x' not found",
              {"entity_type", "entity_id"}, 0)

\* exceptions.py lines 42-45
ConflictErrorOf(m, conflict_details) == Exception("ConflictError", m, conflict_details, 0)

\* exceptions.py lines 51-66: api_error is a dict, a str or None.
NotionAPIErrorOf(m, api_error, sc) ==
    Exception("NotionAPIError", m,
              (IF api_error = "dict" THEN {"message"}
               ELSE IF api_error = "str" THEN {"error"} ELSE {})
              \cup (IF sc # 0 THEN {"status_code"} ELSE {}),
              sc)

\* exceptions.py lines 72-77
RateLimitErrorOf(m, retry_after) ==
    Exception("RateLimitError", m, IF retry_after # 0 THEN {"retry_after"} ELSE {}, 0)

\* exceptions.py lines 83-89
InternalErrorOf(m, original_error) ==
    Exception("InternalError", m,
              IF original_error THEN {"original_error", "error_type"} ELSE {}, 0)

Messages == {"Failed to create task", "Invalid task data: Bad request"}

\* The exceptions a request handler can raise.
DomainExceptions ==
    {ValidationErrorOf(m, f) : m \in Messages, f \in {"", "title"}}
    \cup {NotFoundErrorOf(et) : et \in {"database", "task"}}
    \cup {ConflictErrorOf(m, d) : m \in Messages, d \in {{}, {"existing_id"}}}
    \cup {NotionAPIErrorOf(m, b, sc) :
            m \in Messages, b \in {"none", "dict", "str"},
            sc \in {0, BadRequestStatus, 403, NotFoundStatus, RateLimitStatus, 500, 502}}
    \cup {RateLimitErrorOf(m, ra) :
            m \in {"Notion API rate limit exceeded. Please try again later."},
            ra \in {0, 5}}
    \cup {InternalErrorOf(m, oe) : m \in Messages, oe \in BOOLEAN}
    \cup {Exception("DomainException", m, d, 0) : m \in Messages, d \in {{}, {"info"}}}

\* error_handler.py lines 22-53
MapExceptionToErrorCode(e) ==
    IF e.kind = "ValidationError" THEN [code |-> "VALIDATION_ERROR", status |-> 400]
    ELSE IF e.kind = "NotFoundError" THEN [code |-> "NOT_FOUND", status |-> 404]
    ELSE IF e.kind = "ConflictError" THEN [code |-> "CONFLICT", status |-> 409]
    ELSE IF e.kind = "RateLimitError" THEN [code |-> "RATE_LIMIT_EXCEEDED", status |-> 503]
    ELSE IF e.kind = "NotionAPIError" THEN
        IF e.status_code # 0 THEN
            IF e.status_code \in {400, 403, 404}
              THEN [code |-> "NOTION_API_ERROR", status |-> e.status_code]
            ELSE IF e.status_code = 429
              THEN [code |-> "RATE_LIMIT_EXCEEDED", status |-> 429]
            ELSE [code |-> "NOTION_API_ERROR", status |-> 502]
        ELSE [code |-> "NOTION_API_ERROR", status |-> 502]
    ELSE [code |-> "INTERNAL_ERROR", status |-> 500]

NoResponse == [status |-> 0, code |-> "", message |-> "", has_details |-> FALSE, details |-> {}]

\* error_handler.py lines 59-89: the response built for an exception.
ErrorResponse(e) ==
    LET m == MapExceptionToErrorCode(e)
        with_details == e.details # {} /\ m.code # "INTERNAL_ERROR"
    IN  [status |-> m.status, code |-> m.code, message |-> e.message,
         has_details |-> with_details,
         details |-> IF with_details THEN e.details ELSE {}]

InitHandler == raised = NoException /\ response = NoResponse

\* A request handler raises a DomainException.
RaiseDomainException ==
    /\ raised = NoException
    /\ \E e \in DomainExceptions : raised' = e
    /\ response' = NoResponse
    /\ UNCHANGED outsideHandler

\* handle_domain_exception, error_handler.py lines 56-89
HandleDomainException ==
    /\ raised # NoException /\ response = NoResponse
    /\ response' = ErrorResponse(raised)
    /\ UNCHANGED raised
    /\ UNCHANGED outsideHandler

\* The response is sent; the next request can fail.
SendResponse ==
    /\ response # NoResponse
    /\ raised' = NoException
    /\ response' = NoResponse
    /\ UNCHANGED outsideHandler

NextHandler == RaiseDomainException \/ HandleDomainException \/ SendResponse

\* ------------------------------------ client_factory.py, tokens/repository.py
\* The ObjectIds a stored token can have.
TokenIds == {"tok-1", "tok-2"}

FactoryCallers == 1..NFactoryCallers

\* A token_id argument: an ObjectId, None or the empty string ("none"), or
\* a string that is no ObjectId ("malformed").
TokenIdArgs == TokenIds \cup {"none", "malformed"}

NoToken == [stored |-> FALSE, is_active |-> FALSE, token |-> ""]

TokenDoc(id, active) == [stored |-> TRUE, is_active |-> active, token |-> "secret_" \o id]

\* settings.notion_api_key
DefaultApiKey == "secret_env"

NoClient == [kind |-> "none", auth |-> ""]
ClientWith(key) == [kind |-> "client", auth |-> key]
FactoryError(k) == [kind |-> k, auth |-> ""]

InitTokens ==
    /\ tokens = [id \in TokenIds |-> NoToken]
    /\ fpc = [c \in FactoryCallers |-> "idle"]
    /\ farg = [c \in FactoryCallers |-> "none"]
    /\ fret = [c \in FactoryCallers |-> NoClient]

\* A variant that takes the key of every stored token.
ClientForAnyStored(doc) ==
    IF ~doc.stored THEN FactoryError("NotFoundError")
    ELSE ClientWith(doc.token)

\* repository.py lines 85-86 and client_factory.py lines 49-67: what
\* create_client makes of the document find_one returned.
ClientFor(doc) ==
    IF ~doc.stored THEN FactoryError("NotFoundError")
    ELSE IF ~doc.is_active THEN FactoryError("ValidationError")
    ELSE ClientWith(doc.token)

\* TokenService.create_token and TokenRepository.create: insert_one of a
\* document with is_active True.
TokenCreate(id) ==
    /\ ~tokens[id].stored
    /\ tokens' = [tokens EXCEPT ![id] = TokenDoc(id, TRUE)]
    /\ UNCHANGED <<fpc, farg, fret>>
    /\ UNCHANGED outsideTokens

\* TokenRepository.update: find_one_and_update with $set of is_active.
TokenUpdate(id, active) ==
    /\ tokens[id].stored
    /\ tokens' = [tokens EXCEPT ![id].is_active = active]
    /\ UNCHANGED <<fpc, farg, fret>>
    /\ UNCHANGED outsideTokens

\* TokenRepository.delete: delete_one.
TokenDelete(id) ==
    /\ tokens[id].stored
    /\ tokens' = [tokens EXCEPT ![id] = NoToken]
    /\ UNCHANGED <<fpc, farg, fret>>
    /\ UNCHANGED outsideTokens

\* create_client up to its first await of the store: without a token_id it
\* returns a client with the configured key; a string that is no ObjectId
\* raises NotFoundError in get_by_id; otherwise find_one is sent.
CreateClient(c, arg) ==
    /\ fpc[c] = "idle"
    /\ farg' = [farg EXCEPT ![c] = arg]
    /\ IF arg = "none"
       THEN /\ fret' = [fret EXCEPT ![c] = ClientWith(DefaultApiKey)]
            /\ fpc' = [fpc EXCEPT ![c] = "done"]
       ELSE IF arg = "malformed"
       THEN /\ fret' = [fret EXCEPT ![c] = FactoryError("NotFoundError")]
            /\ fpc' = [fpc EXCEPT ![c] = "done"]
       ELSE /\ fpc' = [fpc EXCEPT ![c] = "find_one"]
            /\ UNCHANGED fret
    /\ UNCHANGED tokens
    /\ UNCHANGED outsideTokens

\* find_one answers with the document stored at that moment, or the
\* database fails and get_by_id raises InternalError; the rest of
\* create_client runs without another await.
FindOne(c) ==
    /\ fpc[c] = "find_one"
    /\ \E answered \in BOOLEAN :
         fret' = [fret EXCEPT ![c] = IF answered THEN ClientFor(tokens[farg[c]])
                                      ELSE FactoryError("InternalError")]
    /\ fpc' = [fpc EXCEPT ![c] = "done"]
    /\ UNCHANGED <<tokens, farg>>
    /\ UNCHANGED outsideTokens

\* The caller has the client or the error.
FactoryReturn(c) ==
    /\ fpc[c] = "done"
    /\ fpc' = [fpc EXCEPT ![c] = "idle"]
    /\ farg' = [farg EXCEPT ![c] = "none"]
    /\ fret' = [fret EXCEPT ![c] = NoClient]
    /\ UNCHANGED tokens
    /\ UNCHANGED outsideTokens

NextTokens ==
    \/ \E id \in TokenIds : TokenCreate(id)
    \/ \E id \in TokenIds, active \in BOOLEAN : TokenUpdate(id, active)
    \/ \E id \in TokenIds : TokenDelete(id)
    \/ \E c \in FactoryCallers, arg \in TokenIdArgs : CreateClient(c, arg)
    \/ \E c \in FactoryCallers : FindOne(c)
    \/ \E c \in FactoryCallers : FactoryReturn(c)

\* ------------------------------------------ cancellation of a wrapped call
InitCancel == cancelled = [t \in Tasks |-> FALSE]

\* The exception hierarchy before Python 3.8: CancelledError is an Exception.
IsExceptionLegacy(kind) == TRUE

\* "except Exception" matches every exception of the model but
\* asyncio.CancelledError, a BaseException (the union annotations of
\* exceptions.py need Python 3.10).
IsException(kind) == kind # "CancelledError"

\* What func raises when CancelledError is thrown into its pending await: a
\* NotionTaskService method has "except APIResponseError" and "except
\* Exception" around the call and raises InternalError from the second; any
\* other wrapped function lets the cancellation through.
CancelledInFunc(f) ==
    IF f \in ServiceOps /\ IsException("CancelledError")
      THEN Outcome("InternalError", 0, FALSE, 0)
      ELSE Outcome("CancelledError", 0, FALSE, 0)

\* asyncio throws CancelledError into the task at the await it is suspended
\* in. Line 47 is inside the try: what func raises is no APIResponseError,
\* and lines 88-90 re-raise whatever "except Exception" catches. Line 73 is
\* inside the handler of "except APIResponseError": what the sleep raises is
\* outside the try and leaves the wrapper as it is.
Cancel(t) ==
    /\ pc[t] \in {"in_op", "sleep"}
    /\ ~cancelled[t]
    /\ cancelled' = [cancelled EXCEPT ![t] = TRUE]
    /\ result' = [result EXCEPT ![t] =
                    IF pc[t] = "in_op" THEN CancelledInFunc(fn)
                    ELSE Outcome("CancelledError", 0, FALSE, 0)]
    /\ pc' = [pc EXCEPT ![t] = "done"]
    /\ UNCHANGED <<upTarget, policy, fn, attempt, delay, invoked, rlSeen, slept, hitsBy,
                   lastUp, notion_api_calls, rate_limit_hits>>
    /\ UNCHANGED outsideCancel

NextCancel == NextRetry \/ \E t \in Tasks : Cancel(t)

\* ------------------------------------------------- the time spent sleeping
InitClock == sleptTime = [t \in Tasks |-> 0]

\* Policies whose initial_delay reaches max_delay.
TimedPolicies ==
    [max_retries : 0..MaxRetriesBound, initial_delay : {1000, 1500},
     max_delay : {1500}, jitter_factor : JitterFactors]

\* lines 56-73 with the delay handed to asyncio.sleep added to the total.
BackoffTimed(t) ==
    /\ BackoffStep(t)
    /\ sleptTime' = [sleptTime EXCEPT ![t] = @ + delay'[t]]
    /\ UNCHANGED outsideTimed

NextTimed ==
    \E t \in Tasks :
        \/ Invoke(t)
        \/ IncrementNotionApiCalls(t)
        \/ OpStart(t)
        \/ OpEnd(t)
        \/ IncrementRateLimitHits(t)
        \/ BackoffTimed(t)
        \/ Exhausted(t)
        \/ Wake(t)

\* --------------------------------- notion_task_service.py, list_tasks paging
Pages == 1..MaxPage
Limits == 1..MaxLimit
UpstreamSizes == 0..MaxItems

\* next_cursor: None, or an opaque string that stands for a position.
NoCursor == [set |-> FALSE, pos |-> 0]
CursorAt(i) == [set |-> TRUE, pos |-> i]

NoQuery == [page_size |-> 0, start_cursor |-> NoCursor]

InitPaging ==
    /\ lpc = "idle"
    /\ lreq = [page |-> 1, limit |-> 1]
    /\ lupstream = 0
    /\ lskip = 0
    /\ lcollected = <<>>
    /\ lcursor = NoCursor
    /\ lhas_more = FALSE
    /\ lsent = NoQuery
    /\ lnext = NoCursor
    /\ lbatches = 0
    /\ lempty = 0

\* A variant that looks only at what is left of the batch.
HasMoreInBatchOnly(remaining_in_batch, response_has_more) == remaining_in_batch > 0

\* line 253: remaining_in_batch > 0 or response_has_more
HasMoreForPage(remaining_in_batch, response_has_more) ==
    remaining_in_batch > 0 \/ response_has_more

\* A variant that never takes the page as filled.
PageNeverFilled(collected, limit) == FALSE

\* line 252: len(collected) >= request.limit
PageFilled(collected, limit) == Len(collected) >= limit

\* lines 221-225: the locals before the loop.
ListTasks(p, l, n) ==
    /\ lpc = "idle"
    /\ lreq' = [page |-> p, limit |-> l]
    /\ lupstream' = n
    /\ lskip' = (p - 1) * l
    /\ lcollected' = <<>>
    /\ lhas_more' = FALSE
    /\ lcursor' = NoCursor
    /\ lpc' = "loop"
    /\ lsent' = NoQuery
    /\ lnext' = NoCursor
    /\ lbatches' = 0
    /\ lempty' = 0
    /\ UNCHANGED outsidePaging

\* lines 227-239: build the payload and send the query.
SendQuery ==
    /\ lpc = "loop"
    /\ lsent' = [page_size |-> Min(lreq.limit, NotionMaxPageSize),
                 start_cursor |-> IF lcursor.set THEN lcursor ELSE NoCursor]
    /\ lbatches' = lbatches + 1
    /\ lpc' = "await"
    /\ UNCHANGED <<lreq, lupstream, lskip, lcollected, lcursor, lhas_more, lnext, lempty>>
    /\ UNCHANGED outsidePaging

\* The sizes of the batch upstream may answer a query at position pos with:
\* at most page_size items, and an empty batch while items are left only
\* MaxEmptyBatches times.
BatchSizes(pos) ==
    {b \in 0..Min(lsent.page_size, lupstream - pos) :
        b = 0 => (lupstream = pos \/ lempty < MaxEmptyBatches)}

\* lines 239-258: upstream answers with the next batch of its sequence,
\* has_more when items are left after it and then a cursor for them; the
\* loop skips or slices the batch and breaks or goes round.
ReceiveBatch ==
    /\ lpc = "await"
    /\ LET pos == IF lsent.start_cursor.set THEN lsent.start_cursor.pos ELSE 0 IN
       \E b \in BatchSizes(pos) :
        LET results == [i \in 1..b |-> pos + i]
            response_has_more == pos + b < lupstream
            next_cursor == IF response_has_more THEN CursorAt(pos + b) ELSE NoCursor
            skipped == lskip >= Len(results)
            slice_end == Min(lskip + (lreq.limit - Len(lcollected)), Len(results))
            extended == lcollected \o SubSeq(results, lskip + 1, slice_end)
            remaining_in_batch == Len(results) - slice_end
        IN
        /\ lcursor' = next_cursor
        /\ lnext' = next_cursor
        /\ lempty' = IF b = 0 THEN lempty + 1 ELSE lempty
        /\ lskip' = IF skipped THEN lskip - Len(results) ELSE 0
        /\ lcollected' = IF skipped THEN lcollected ELSE extended
        /\ IF ~skipped /\ PageFilled(extended, lreq.limit)
             THEN /\ lhas_more' = HasMoreForPage(remaining_in_batch, response_has_more)
                  /\ lpc' = "done"
             ELSE IF ~response_has_more \/ ~next_cursor.set
             THEN /\ lhas_more' = FALSE
                  /\ lpc' = "done"
             ELSE /\ lhas_more' = lhas_more
                  /\ lpc' = "loop"
    /\ UNCHANGED <<lreq, lupstream, lsent, lbatches>>
    /\ UNCHANGED outsidePaging

\* lines 260-271: the response is built from collected and has_more_for_page.
ListReturn ==
    /\ lpc = "done"
    /\ lpc' = "idle"
    /\ lreq' = [page |-> 1, limit |-> 1]
    /\ lupstream' = 0
    /\ lskip' = 0
    /\ lcollected' = <<>>
    /\ lcursor' = NoCursor
    /\ lhas_more' = FALSE
    /\ lsent' = NoQuery
    /\ lnext' = NoCursor
    /\ lbatches' = 0
    /\ lempty' = 0
    /\ UNCHANGED outsidePaging

NextPaging ==
    \/ \E p \in Pages, l \in Limits, n \in UpstreamSizes : ListTasks(p, l, n)
    \/ SendQuery
    \/ ReceiveBatch
    \/ ListReturn

\* ----------------- notion_task_service.py, create_task and update_task bodies
UpdateFields == {"status", "priority", "due_date"}

\* A request: its assignee_id has a user mapping, has none, or is absent;
\* the fields it sets; and whether the service has a UserMappingService.
ServiceRequests ==
    [assignee : {"none", "mapped", "unmapped"}, fields : SUBSET UpdateFields,
     mapping_service : BOOLEAN]

NoServiceRequest == [assignee |-> "none", fields |-> {}, mapping_service |-> FALSE]

InitService ==
    /\ spc = "idle"
    /\ sop = "create_task"
    /\ sreq = NoServiceRequest
    /\ sraised = "none"
    /\ sres = "none"
    /\ scalls = 0

\* lines 133-135, 479-481: what leaves the method when an exception that is
\* no APIResponseError is raised inside its try block: "except Exception"
\* catches it and raises InternalError.
RaisedInTry(kind) == IF IsException(kind) THEN "InternalError" ELSE kind

\* lines 483-514: the keys of the payload _build_update_properties builds.
UpdateProperties(req) ==
    req.fields \cup (IF req.assignee # "none" THEN {"assignee"} ELSE {})

ServiceCall(op, req) ==
    /\ spc = "idle"
    /\ sop' = op
    /\ sreq' = req
    /\ spc' = "assignee"
    /\ sraised' = "none"
    /\ sres' = "none"
    /\ scalls' = 0
    /\ UNCHANGED outsideService

\* lines 85-99, 429-441: the assignee is resolved by the user mapping
\* service when there is one; resolve_notion_user_id raises NotFoundError
\* for an assignee without a mapping (user_mapping_service.py 43-58).
ResolveAssignee ==
    /\ spc = "assignee"
    /\ IF sreq.assignee = "unmapped" /\ sreq.mapping_service
         THEN /\ sraised' = "NotFoundError"
              /\ sres' = RaisedInTry("NotFoundError")
              /\ spc' = "done"
         ELSE /\ spc' = "build"
              /\ UNCHANGED <<sraised, sres>>
    /\ UNCHANGED <<sop, sreq, scalls>>
    /\ UNCHANGED outsideService

\* lines 101-108, 443-449: the payload is built; update_task raises
\* ValidationError for an empty one; otherwise the upstream call is made.
BuildProperties ==
    /\ spc = "build"
    /\ IF sop = "update_task" /\ UpdateProperties(sreq) = {}
         THEN /\ sraised' = "ValidationError"
              /\ sres' = RaisedInTry("ValidationError")
              /\ spc' = "done"
              /\ scalls' = scalls
         ELSE /\ scalls' = scalls + 1
              /\ spc' = "upstream"
              /\ UNCHANGED <<sraised, sres>>
    /\ UNCHANGED <<sop, sreq>>
    /\ UNCHANGED outsideService

\* lines 110-135, 451-481: upstream answers; the method returns or raises
\* the domain error of the answer.
ServiceAnswer ==
    /\ spc = "upstream"
    /\ \E up \in UpstreamAnswers(1) :
        /\ sraised' = IF up.kind = "ok" THEN "none"
                      ELSE IF up.kind = "api" THEN "APIResponseError" ELSE "Exception"
        /\ sres' = ServiceOutcome(sop, up).kind
    /\ spc' = "done"
    /\ UNCHANGED <<sop, sreq, scalls>>
    /\ UNCHANGED outsideService

\* The caller has the response or the error.
ServiceReturn ==
    /\ spc = "done"
    /\ spc' = "idle"
    /\ sop' = "create_task"
    /\ sreq' = NoServiceRequest
    /\ sraised' = "none"
    /\ sres' = "none"
    /\ scalls' = 0
    /\ UNCHANGED outsideService

NextService ==
    \/ \E op \in {"create_task", "update_task"}, req \in ServiceRequests : ServiceCall(op, req)
    \/ ResolveAssignee
    \/ BuildProperties
    \/ ServiceAnswer
    \/ ServiceReturn

\* -------------------------------------------------- workspaces/repository.py
\* The (platform, platform_id) pairs of the requests.
WorkspaceKeys == {"slack/T1", "teams/T2"}

WorkspaceCreators == 1..NCreators

InitWorkspaces ==
    /\ workspaces = [k \in WorkspaceKeys |-> 0]
    /\ wpc = [c \in WorkspaceCreators |-> "idle"]
    /\ wkey = [c \in WorkspaceCreators |-> "slack/T1"]
    /\ wres = [c \in WorkspaceCreators |-> "none"]

\* lines 49-71: create is called and sends the find_one of
\* find_by_platform_id.
WorkspaceCreate(c, k) ==
    /\ wpc[c] = "idle"
    /\ wkey' = [wkey EXCEPT ![c] = k]
    /\ wres' = [wres EXCEPT ![c] = "none"]
    /\ wpc' = [wpc EXCEPT ![c] = "find_one"]
    /\ UNCHANGED workspaces
    /\ UNCHANGED outsideWorkspaces

\* lines 33-42, 69-77: find_one answers with what is stored at that moment;
\* a document makes create raise ConflictError, none lets it go on to
\* insert_one.
WorkspaceFound(c) ==
    /\ wpc[c] = "find_one"
    /\ IF workspaces[wkey[c]] > 0
         THEN /\ wres' = [wres EXCEPT ![c] = "ConflictError"]
              /\ wpc' = [wpc EXCEPT ![c] = "done"]
         ELSE /\ wpc' = [wpc EXCEPT ![c] = "insert_one"]
              /\ wres' = wres
    /\ UNCHANGED <<workspaces, wkey>>
    /\ UNCHANGED outsideWorkspaces

\* line 80: insert_one; the collection has no unique index on the key (the
\* repository creates none), so the insert succeeds whatever is stored.
WorkspaceInsertOne(c) ==
    /\ wpc[c] = "insert_one"
    /\ workspaces' = [workspaces EXCEPT ![wkey[c]] = @ + 1]
    /\ wpc' = [wpc EXCEPT ![c] = "read_back"]
    /\ UNCHANGED <<wkey, wres>>
    /\ UNCHANGED outsideWorkspaces

\* lines 83-86: the created document is read back by its _id and returned.
WorkspaceReadBack(c) ==
    /\ wpc[c] = "read_back"
    /\ wres' = [wres EXCEPT ![c] = "created"]
    /\ wpc' = [wpc EXCEPT ![c] = "done"]
    /\ UNCHANGED <<workspaces, wkey>>
    /\ UNCHANGED outsideWorkspaces

\* The caller has the workspace or the error.
WorkspaceReturn(c) ==
    /\ wpc[c] = "done"
    /\ wpc' = [wpc EXCEPT ![c] = "idle"]
    /\ wkey' = [wkey EXCEPT ![c] = "slack/T1"]
    /\ wres' = [wres EXCEPT ![c] = "none"]
    /\ UNCHANGED workspaces
    /\ UNCHANGED outsideWorkspaces

NextWorkspaces ==
    \/ \E c \in WorkspaceCreators, k \in WorkspaceKeys : WorkspaceCreate(c, k)
    \/ \E c \in WorkspaceCreators : WorkspaceFound(c)
    \/ \E c \in WorkspaceCreators : WorkspaceInsertOne(c)
    \/ \E c \in WorkspaceCreators : WorkspaceReadBack(c)
    \/ \E c \in WorkspaceCreators : WorkspaceReturn(c)

\* ---------------------------------------------------------- specifications
\* The retry wrapper, each increment of a counter taken as one step.
Init == InitRetry /\ InitLock /\ InitResolver /\ InitHistory /\ InitHandler /\ InitWorkspaces /\ InitService /\ InitPaging /\ InitClock /\ InitCancel /\ InitTokens

Next == NextRetry

Spec == Init /\ [][Next]_vars

\* The two increment methods called by concurrent tasks, step by step.
InitMetrics ==
    /\ RetryQuiet /\ InitLock /\ InitResolver /\ InitHistory /\ InitHandler /\ InitWorkspaces /\ InitService /\ InitPaging /\ InitClock /\ InitCancel /\ InitTokens
    /\ notion_api_calls = 0 /\ rate_limit_hits = 0

SpecMetrics == InitMetrics /\ [][NextMetrics]_vars

\* The resolver called by concurrent tasks.
InitResolverSpec ==
    /\ RetryQuiet /\ InitLock /\ InitResolver /\ InitHistory /\ InitHandler /\ InitWorkspaces /\ InitService /\ InitPaging /\ InitClock /\ InitCancel /\ InitTokens
    /\ notion_api_calls = 0 /\ rate_limit_hits = 0

SpecResolver == InitResolverSpec /\ [][NextResolver]_vars

\* The resolver called by one task at a time.
SpecResolverSeq == InitResolverSpec /\ [][NextResolverSeq]_vars

\* The retry wrapper and the lock of the metrics it awaits.
InitLocked ==
    /\ fn = "generic"
    /\ policy \in {p \in Policies : /\ p.max_retries = 1 /\ p.jitter_factor = 0
                                    /\ p.initial_delay = 1000 /\ p.max_delay = 8000}
    /\ pc = [t \in Tasks |-> "idle"]
    /\ attempt = [t \in Tasks |-> 0]
    /\ delay = [t \in Tasks |-> 0]
    /\ result = [t \in Tasks |-> NoOutcome]
    /\ invoked = [t \in Tasks |-> 0]
    /\ rlSeen = [t \in Tasks |-> 0]
    /\ slept = [t \in Tasks |-> 0]
    /\ hitsBy = [t \in Tasks |-> 0]
    /\ lastUp = [t \in Tasks |-> NoOutcome]
    /\ upTarget = [t \in Tasks |-> ""]
    /\ notion_api_calls = 0 /\ rate_limit_hits = 0
    /\ InitLock /\ InitResolver /\ InitHistory /\ InitHandler /\ InitWorkspaces /\ InitService /\ InitPaging /\ InitClock /\ InitCancel /\ InitTokens

SpecLocked == InitLocked /\ [][NextLocked]_vars

\* The error handler of the API boundary.
SpecHandler == InitResolverSpec /\ [][NextHandler]_vars

\* The event loop runs every task that can run.
FairSpecMetrics == SpecMetrics /\ \A c \in Callers : WF_vars(CallerNext(c))

\* The token store and concurrent callers of NotionClientFactory.
SpecTokens == InitResolverSpec /\ [][NextTokens]_vars

\* The retry wrapper run by tasks that can be cancelled.
InitCancelSpec ==
    /\ Init
    /\ fn \in {"generic", "update_task"}
    /\ fn = "generic" => /\ policy.max_retries = 1 /\ policy.jitter_factor = 0
                         /\ policy.max_delay = 8000

SpecCancel == InitCancelSpec /\ [][NextCancel]_vars

\* The retry wrapper with the time of its sleeps added up.
InitTimed ==
    /\ fn = "generic"
    /\ policy \in TimedPolicies
    /\ pc = [t \in Tasks |-> "idle"]
    /\ attempt = [t \in Tasks |-> 0]
    /\ delay = [t \in Tasks |-> 0]
    /\ result = [t \in Tasks |-> NoOutcome]
    /\ invoked = [t \in Tasks |-> 0]
    /\ rlSeen = [t \in Tasks |-> 0]
    /\ slept = [t \in Tasks |-> 0]
    /\ hitsBy = [t \in Tasks |-> 0]
    /\ lastUp = [t \in Tasks |-> NoOutcome]
    /\ upTarget = [t \in Tasks |-> ""]
    /\ notion_api_calls = 0 /\ rate_limit_hits = 0
    /\ InitLock /\ InitResolver /\ InitHistory /\ InitHandler /\ InitWorkspaces /\ InitService /\ InitPaging /\ InitClock /\ InitCancel /\ InitTokens

SpecTimed == InitTimed /\ [][NextTimed]_vars

\* One call of list_tasks after another, against every upstream of the bounds.
SpecPaging == InitResolverSpec /\ [][NextPaging]_vars

\* The event loop resumes the call when upstream has answered.
FairSpecPaging == SpecPaging /\ WF_vars(SendQuery) /\ WF_vars(ReceiveBatch)

\* One call of create_task or update_task after another.
SpecService == InitResolverSpec /\ [][NextService]_vars

\* Concurrent calls of WorkspaceRepository.create.
SpecWorkspaces == InitResolverSpec /\ [][NextWorkspaces]_vars


\* ======================================================= retry properties
MaxRetries == PolicyOf(fn).max_retries

\* The error func raised is no rate-limit error: not an APIResponseError with
\* status 429 or a body holding "rate_limit".
NonRateLimitError(out) ==
    /\ out.kind \notin {"ok", "none"}
    /\ ~(out.kind = "api" /\ (out.status = 429 \/ out.marker))

\* What func returned or raised in the latest attempt of task t.
FuncRaised(t) ==
    IF lastUp[t].kind = "none" THEN NoOutcome ELSE FuncOutcome(fn, lastUp[t])

\* The base delay of the retry after attempt i, as the spec states it.
SpecBase(i) == Min(policy.initial_delay * Pow2(i), policy.max_delay)

ExamplePolicy ==
    [max_retries |-> 2, initial_delay |-> 1000, max_delay |-> 8000, jitter_factor |-> 0]

\* C1: one invocation calls the operation at most max_retries+1 times, and
\* RateLimitError is raised only after exactly max_retries+1 attempts that
\* each ended in a rate-limit error.
C1_AttemptsBounded ==
    \A t \in Tasks :
        /\ invoked[t] <= MaxRetries + 1
        /\ result[t].kind = "RateLimitError" =>
              /\ invoked[t] = MaxRetries + 1
              /\ rlSeen[t] = MaxRetries + 1

C1_Witness ==
    \E t \in Tasks :
        /\ fn = "generic" /\ policy.max_retries = 2
        /\ result[t].kind = "RateLimitError"

\* C2: when the attempt with index max_retries ends in a rate-limit error the
\* invocation fails with RateLimitError, not with the raw upstream error, and
\* no sleep follows that attempt.
C2_ExhaustedRaisesRateLimitError ==
    \A t \in Tasks :
        rlSeen[t] = MaxRetries + 1 =>
            /\ pc[t] \in {"hit", "backoff", "done"}
            /\ slept[t] = MaxRetries
            /\ pc[t] = "done" =>
                 /\ result[t].kind = "RateLimitError"
                 /\ result[t] # FuncRaised(t)

C2_Witness ==
    \E t \in Tasks :
        /\ fn = "generic" /\ policy.max_retries = 1
        /\ rlSeen[t] = 2 /\ pc[t] = "done"

\* C3: an attempt that fails with a non-rate-limit error ends the invocation
\* with that same error: no further attempt, no sleep and no rate-limit hit
\* follow it, also when earlier attempts were rate limited.
C3_OtherErrorsPropagate ==
    \A t \in Tasks :
        NonRateLimitError(FuncRaised(t)) =>
            /\ pc[t] = "done"
            /\ result[t] = FuncRaised(t)
            /\ invoked[t] = attempt[t] + 1
            /\ slept[t] = attempt[t]
            /\ hitsBy[t] = attempt[t]
            /\ rlSeen[t] = attempt[t]

C3_Witness ==
    \E t \in Tasks :
        /\ fn = "generic" /\ pc[t] = "done" /\ attempt[t] = 2
        /\ lastUp[t] = Outcome("api", 500, FALSE, 0)
        /\ result[t] = lastUp[t]

\* C4: in create_task, list_tasks, update_task and delete_task a 429 from
\* the Notion client makes the operation run again after a backoff sleep, and
\* the call fails with RateLimitError once all 5 attempts were answered 429:
\* a call whose latest answer was a 429 has not ended, or has ended in
\* RateLimitError after 5 attempts.
C4_ServiceRetriesOn429 ==
    fn \in ServiceOps =>
        \A t \in Tasks :
            (lastUp[t].kind = "api" /\ lastUp[t].status = 429) =>
                \/ pc[t] # "done"
                \/ /\ result[t].kind = "RateLimitError"
                   /\ invoked[t] = ServiceMaxRetries + 1

\* C18: every query or page creation create_task and list_tasks send upstream
\* comes after a resolve of the request's database id by the resolver and
\* names the data source the resolver gave, not the database id as passed.
C18_ResolveBeforeUpstream ==
    fn \in {"create_task", "list_tasks"} =>
        \A t \in Tasks :
            pc[t] = "in_op" =>
                /\ cache[RequestDatabaseId].present
                /\ upTarget[t] = CachedSource(cache[RequestDatabaseId], RequestDatabaseId)

\* C19: an error response with status s to create_task, update_task or
\* delete_task makes the method raise NotFoundError for 404, ValidationError
\* for 400 and NotionAPIError with status_code s for any other s, after one
\* upstream call; list_tasks raises NotFoundError for 404 and NotionAPIError
\* with status_code s otherwise.
C19_ServiceErrorMapping ==
    fn \in ServiceOps =>
        \A t \in Tasks :
            (pc[t] = "done" /\ lastUp[t].kind = "api") =>
                /\ invoked[t] = 1
                /\ result[t].kind =
                      IF lastUp[t].status = NotFoundStatus THEN "NotFoundError"
                      ELSE IF lastUp[t].status = BadRequestStatus /\ fn # "list_tasks"
                        THEN "ValidationError"
                      ELSE "NotionAPIError"
                /\ result[t].kind = "NotionAPIError" =>
                      result[t].status = lastUp[t].status

\* C5: without jitter, an operation that is rate limited k times and then
\* succeeds is called k+1 times, sleeps min(initial_delay * 2^i, max_delay)
\* before retry i, and the invocation returns what the last call returned.
C5_BackoffWithoutJitter ==
    (fn = "generic" /\ policy.jitter_factor = 0) =>
        \A t \in Tasks :
            /\ pc[t] = "sleep" => delay[t] = SpecBase(attempt[t])
            /\ (policy = ExamplePolicy /\ pc[t] = "sleep") =>
                  delay[t] = (IF attempt[t] = 0 THEN 1000 ELSE 2000)
            /\ (pc[t] = "done" /\ result[t].kind = "ok") =>
                  /\ invoked[t] = rlSeen[t] + 1
                  /\ slept[t] = rlSeen[t]
                  /\ attempt[t] = rlSeen[t]
                  /\ result[t] = Outcome("ok", 0, FALSE, invoked[t])

C5_Witness ==
    \E t \in Tasks :
        /\ fn = "generic" /\ policy = ExamplePolicy
        /\ pc[t] = "done" /\ result[t].kind = "ok"
        /\ rlSeen[t] = 2 /\ invoked[t] = 3 /\ slept[t] = 2

\* C6: with jitter_factor 0.2 every sleep lies in [0.8 * base, 1.2 * base] for
\* base = min(initial_delay * 2^i, max_delay), and is never negative.
C6_JitterWithinBounds ==
    (fn = "generic" /\ policy.jitter_factor = 20) =>
        \A t \in Tasks :
            pc[t] = "sleep" =>
                /\ delay[t] >= 0
                /\ 10 * delay[t] >= 8 * SpecBase(attempt[t])
                /\ 10 * delay[t] <= 12 * SpecBase(attempt[t])

C6_Witness ==
    \E t \in Tasks :
        /\ fn = "generic" /\ policy.jitter_factor = 20 /\ policy.max_delay = 1500
        /\ pc[t] = "sleep" /\ attempt[t] = 1 /\ delay[t] = 1800

\* C7: api_calls_total is incremented once per attempt, before the operation
\* is called: it is never less than the number of calls started, and equals
\* the number of attempts made when no wrapped call is in flight.
C7_ApiCallsCounted ==
    /\ notion_api_calls >= SumOver(invoked, Tasks)
    /\ notion_api_calls =
          SumOver(invoked, Tasks) + Cardinality({t \in Tasks : pc[t] = "call"})
    /\ (\A t \in Tasks : pc[t] \in {"idle", "done"}) =>
          notion_api_calls = SumOver(invoked, Tasks)

C7_Witness ==
    /\ \A t \in Tasks : pc[t] = "done" /\ invoked[t] >= 2
    /\ notion_api_calls >= 4

\* C8: rate_limit_hits_total is incremented once for each attempt that ends
\* in a rate-limit error, the last one included, and for no other; neither
\* counter ever decreases, and rate_limit_hits_total <= api_calls_total.
C8_HitsInvariant ==
    /\ rate_limit_hits =
          SumOver(rlSeen, Tasks) - Cardinality({t \in Tasks : pc[t] = "hit"})
    /\ rate_limit_hits = SumOver(hitsBy, Tasks)
    /\ rate_limit_hits <= notion_api_calls

C8_RateLimitHitsCounted ==
    /\ []C8_HitsInvariant
    /\ [][/\ notion_api_calls' >= notion_api_calls
          /\ rate_limit_hits' >= rate_limit_hits]_vars

C8_Witness ==
    \E t \in Tasks :
        /\ fn = "generic" /\ policy.max_retries = 2
        /\ result[t].kind = "RateLimitError" /\ rate_limit_hits >= 3

\* C11: a task in a backoff sleep holds no lock: when the metrics lock is
\* held, a task that is not asleep holds it; and whatever the tasks that are
\* not asleep wait for, one of them can take its next step, so that another
\* call can count, call its operation and end while the sleep lasts.
C11_SleepHoldsNoLock ==
    \A t \in Tasks :
        pc[t] = "sleep" =>
            /\ t \notin {waiters[i] : i \in 1..Len(waiters)}
            /\ locked => \E u \in Tasks \ {t} : pc[u] \in {"calls_locked", "hits_locked"}
            /\ (\E u \in Tasks : pc[u] \notin {"sleep", "done"}) =>
                  \E u \in Tasks : pc[u] \notin {"sleep", "done"} /\ ENABLED RunLocked(u)

\* Task u was called while t was asleep and has returned, and t is still in
\* that same sleep.
C11_Witness ==
    \E t, u \in Tasks :
        /\ t # u
        /\ pc[t] = "sleep"
        /\ asleepAtInvoke[u][t] = attempt[t] + 1
        /\ pc[u] = "done" /\ result[u].kind = "ok"
        /\ notion_api_calls = invoked[t] + invoked[u]


\* ===================================================== metrics properties
Stored(w) == {c \in Callers : mwhich[c] = w /\ mpc[c] \in {"release", "done"}}

C9_Exact ==
    /\ notion_api_calls = Cardinality(Stored("calls"))
    /\ rate_limit_hits = Cardinality(Stored("hits"))
    /\ Cardinality({c \in Callers : mpc[c] \in {"load", "store", "release"}}) <= 1
    /\ (\A c \in Callers : mpc[c] = "done") =>
          notion_api_calls + rate_limit_hits = NCallers

\* C9: the increments exclude each other: however the calls of N tasks
\* interleave, each counter ends as many higher as it was incremented (no
\* update is lost), and no caller waits for the lock for ever.
C9_IncrementsExclusive ==
    /\ []C9_Exact
    /\ \A c \in Callers : (mpc[c] = "wait") ~> (mpc[c] = "load")
    /\ <>(\A c \in Callers : mpc[c] = "done")

C9_Witness ==
    /\ \A c \in Callers : mpc[c] = "done"
    /\ notion_api_calls = 2 /\ rate_limit_hits = NCallers - 2


\* ==================================================== resolver properties
\* C10: the check-then-insert sequences on the cache exclude each other: no
\* field a task has cached (data_source_id, properties) is lost or replaced
\* by the insert of another task (clear_cache aside).
C10_CacheWritesExclusive ==
    [][cache' # EmptyCache =>
         \A d \in DbIds :
            /\ cache[d].has_ds =>
                  /\ cache'[d].has_ds
                  /\ cache'[d].data_source_id = cache[d].data_source_id
            /\ cache[d].has_props =>
                  /\ cache'[d].has_props
                  /\ cache'[d].properties = cache[d].properties]_vars

\* C12: resolve_database_id is idempotent: once a resolve of a database whose
\* retrieve succeeded has been answered, every call of resolve_database_id
\* made after it for that database returns the id that call returned, and
\* returns it from the cache, with no request sent upstream.
C12_ResolveIdempotent ==
    [][\A r \in Resolvers, d \in DbIds :
          (/\ rpc[r] = "idle" /\ rpc'[r] # "idle"
           /\ rop'[r] = "resolve" /\ rdb'[r] = d
           /\ firstId[d] # "") =>
              /\ rpc'[r] = "done"
              /\ rret'[r].id = firstId[d]
              /\ ~rfetch'[r]]_vars

\* C13: once a database has a cached data_source_id, that id is never
\* changed or removed by any call of resolve_database_id or
\* get_database_schema, however the calls interleave and whatever upstream
\* answers, and every resolve that finds it returns it.
C13_CachedIdStable ==
    [][cache' # EmptyCache =>
         \A d \in DbIds :
            cache[d].has_ds =>
                /\ cache'[d].present /\ cache'[d].has_ds
                /\ cache'[d].data_source_id = cache[d].data_source_id
                /\ \A r \in Resolvers :
                      (rpc[r] = "idle" /\ rpc'[r] = "done" /\ rop'[r] = "resolve"
                       /\ rdb'[r] = d) => rret'[r].id = cache[d].data_source_id]_vars

\* C14: when resolve_database_id misses the cache and its retrieve succeeds,
\* it returns and caches the id of the first data source listed, whatever
\* the title of the database looks like, and returns and caches the database
\* id itself when no data source is listed.
C14_FirstDataSourceCached ==
    [][\A r \in Resolvers :
          (/\ rpc[r] = "r_retrieve" /\ rpc'[r] = "done"
           /\ rans'[r].req = "resolve" /\ rans'[r].kind = "ok") =>
              LET want == IF rans'[r].data_sources # <<>>
                            THEN rans'[r].data_sources[1] ELSE rdb[r]
              IN  /\ rret'[r].id = want
                  /\ cache'[rdb[r]].present /\ cache'[rdb[r]].has_ds
                  /\ cache'[rdb[r]].data_source_id = want]_vars

\* C15: the resolver raises on no upstream failure: when the request a call
\* made last failed (with 404, 429 or without a response), resolve_database_id
\* has returned the database id it was given, and get_database_schema has
\* returned an empty schema, for which get_title_property_name gives "Name";
\* get_database_schema goes on with the database id when its resolve failed.
C15_ResolverNeverRaises ==
    \A r \in Resolvers :
        /\ (rpc[r] = "done" /\ rans[r].kind = "fail") =>
              IF rop[r] = "resolve"
                THEN rans[r].req = "resolve" /\ rret[r] = IdReturn(rdb[r])
                ELSE /\ rans[r].req \in {"retrieve", "query"}
                     /\ rret[r] = [id |-> "", schema |-> <<>>, name |-> "Name"]
        /\ (rpc[r] = "s_retrieve" /\ rans[r].kind = "fail") => rsrc[r] = rdb[r]
        /\ rans[r].kind = "fail" => rpc[r] \in {"done", "s_retrieve"}

C15_Witness ==
    /\ \E r \in Resolvers :
          /\ rpc[r] = "done" /\ rop[r] = "schema"
          /\ rans[r].req = "query" /\ rans[r].kind = "fail"
          /\ rans[r].status = RateLimitStatus
    /\ cache["db-1"].has_props

\* The schema the spec expects from a sample of pages: the fields of the
\* first page, each with the id and type seen there, and nothing for no page.
SampledSchema(results) ==
    IF results = <<>> THEN <<>>
    ELSE [i \in 1..Len(results[1]) |->
            [name |-> results[1][i].name, id |-> results[1][i].id,
             type |-> results[1][i].type, detail |-> "none"]]

\* C16: get_database_schema returns the properties the database reports when
\* there are any, and sends no query then; when there are none it queries the
\* pages of the resolved data source and returns the fields of the first page
\* with their id and type, whatever later pages hold, and an empty schema for
\* no page.
C16_SchemaFromDatabaseOrFirstPage ==
    \A r \in Resolvers :
        /\ (rpc[r] = "done" /\ rop[r] = "schema" /\ rans[r].kind = "ok") =>
              IF rans[r].req = "retrieve"
                THEN rans[r].properties # <<>> /\ rret[r].schema = rans[r].properties
                ELSE /\ rans[r].req = "query"
                     /\ rret[r].schema = SampledSchema(rans[r].results)
        /\ rpc[r] = "s_query" =>
              /\ rans[r].req = "retrieve" /\ rans[r].kind = "ok"
              /\ rans[r].properties = <<>>
              /\ rsrc[r] \in {rdb[r], "ds-a"}

C16_Witness ==
    \E r \in Resolvers :
        /\ rpc[r] = "done" /\ rop[r] = "schema"
        /\ rans[r].req = "query" /\ rans[r].results = <<PageA, PageB, PageB>>
        /\ Len(rret[r].schema) = 2
        /\ rret[r].schema[1] = Field("Name", "n1", "title", "none")
        /\ rret[r].schema[2] = Field("Status", "s2", "status", "none")

\* C17: get_title_property_name returns the name of a field of type title
\* when the schema it gets has one, and "Name" when it has none, an empty
\* schema included.
C17_TitlePropertyOrDefault ==
    \A r \in Resolvers :
        (rpc[r] = "done" /\ rop[r] = "schema") =>
            LET sch == rret[r].schema
                titles == {i \in 1..Len(sch) : sch[i].type = "title"}
            IN  IF titles # {}
                  THEN \E i \in titles : rret[r].name = sch[i].name
                  ELSE rret[r].name = "Name"

C17_Witness ==
    \E r \in Resolvers :
        /\ rpc[r] = "done" /\ rop[r] = "schema"
        /\ Len(rret[r].schema) = 2 /\ rret[r].schema[1].type = "date"
        /\ rret[r].name = "Title"


\* ======================================================= handler properties
\* The message of a response that says nothing about the error.
GenericMessage == "An unexpected error occurred"

\* C20: every class of domain error has one (code, status) pair, whatever the
\* instance; a response with a 5xx status carries a generic message and no
\* details; a response with a 4xx status carries the message and the details
\* of the error.
C20_ResponseByStatusClass ==
    response # NoResponse =>
        /\ \A e \in DomainExceptions :
              e.kind = raised.kind =>
                  MapExceptionToErrorCode(e) =
                      [code |-> response.code, status |-> response.status]
        /\ response.status >= 500 =>
              response.message = GenericMessage /\ ~response.has_details
        /\ response.status \in 400..499 =>
              response.message = raised.message /\ response.details = raised.details

\* ======================================================== token properties
\* C21: create_client never builds a client from an inactive or missing
\* stored token. Whatever creates, updates and deletes came before, when
\* find_one answers a call with a token_id, the call fails with
\* ValidationError if the token stored at that moment is inactive and with
\* NotFoundError if none is stored, and otherwise the client carries the
\* stored key; a token_id that is no ObjectId fails with NotFoundError; the
\* configured key is used only by a call without token_id.
C21_ClientOnlyFromActiveToken ==
    [][\A c \in FactoryCallers :
         /\ (fpc[c] = "find_one" /\ fpc'[c] = "done" /\ fret'[c].kind # "InternalError") =>
              LET doc == tokens[farg[c]] IN
                /\ (doc.stored /\ ~doc.is_active) => fret'[c].kind = "ValidationError"
                /\ ~doc.stored => fret'[c].kind = "NotFoundError"
                /\ (doc.stored /\ doc.is_active) => fret'[c] = ClientWith(doc.token)
         /\ (fpc[c] = "idle" /\ fpc'[c] = "done") =>
              /\ farg'[c] = "malformed" => fret'[c].kind = "NotFoundError"
              /\ farg'[c] = "none" => fret'[c] = ClientWith(DefaultApiKey)
         /\ (fret'[c].kind = "client" /\ fret'[c].auth = DefaultApiKey) => farg'[c] = "none"
      ]_vars

\* A token was created and then deactivated by an update while a call naming
\* it waited for find_one; the call failed with ValidationError.
C21_Witness ==
    \E c \in FactoryCallers :
        /\ fpc[c] = "done" /\ farg[c] \in TokenIds
        /\ fret[c].kind = "ValidationError"
        /\ tokens[farg[c]].stored /\ ~tokens[farg[c]].is_active

\* ================================================= cancellation properties
\* C22: a task cancelled while suspended in a backoff sleep or in the
\* pending call of func leaves the wrapper with the cancellation: its result
\* is CancelledError and no other error, and afterwards it calls func no
\* more, sleeps no more and increments neither counter.
C22_CancellationUnwinds ==
    [][/\ \A t \in Tasks :
            /\ cancelled'[t] => /\ pc'[t] = "done"
                                /\ result'[t].kind = "CancelledError"
            /\ cancelled[t] => /\ invoked'[t] = invoked[t]
                               /\ slept'[t] = slept[t]
                               /\ hitsBy'[t] = hitsBy[t]
                               /\ rlSeen'[t] = rlSeen[t]
       /\ (notion_api_calls' # notion_api_calls \/ rate_limit_hits' # rate_limit_hits)
            => \E u \in Tasks : ~cancelled[u] /\ pc[u] \in {"start", "hit"} /\ pc'[u] # pc[u]
      ]_vars

\* One task was cancelled in its backoff sleep after a rate-limited attempt,
\* the other while its first call of func was pending.
C22_Witness ==
    /\ \E t, u \in Tasks :
        /\ cancelled[t] /\ slept[t] = 1 /\ invoked[t] = 1 /\ attempt[t] = 0
        /\ cancelled[u] /\ invoked[u] = 1 /\ slept[u] = 0 /\ lastUp[u] = NoOutcome

\* ======================================================= sleep-time bound
\* C23: for every retry policy, the time one invocation spends in backoff
\* sleeps is at most max_retries * max_delay.
C23_SleepTimeBounded ==
    \A t \in Tasks : sleptTime[t] <= policy.max_retries * policy.max_delay

\* ======================================================= paging properties
\* The positions page p of limit l has in a sequence of n items.
PageOf(p, l, n) ==
    [i \in 1..Max(0, Min(l, n - (p - 1) * l)) |-> (p - 1) * l + i]

\* C24: for every page p, limit l and split of upstream's sequence into
\* batches, list_tasks returns the items at the zero-based positions
\* (p-1)*l .. p*l-1 (fewer when the sequence ends earlier), in order, and
\* has_more exactly when the sequence has an item beyond position p*l-1.
C24_PageWindow ==
    lpc = "done" =>
        /\ lcollected = PageOf(lreq.page, lreq.limit, lupstream)
        /\ lhas_more = (lupstream > lreq.page * lreq.limit)

\* Page 2 of limit 2 of five items, served in more than two batches one of
\* which was empty: items 3 and 4 are returned with has_more.
C24_Witness ==
    /\ lpc = "done" /\ lreq = [page |-> 2, limit |-> 2] /\ lupstream = 5
    /\ lbatches > 2 /\ lempty = 1
    /\ lcollected = <<3, 4>> /\ lhas_more

\* C30: the paging loop ends for every upstream that reports has_more false
\* or no cursor after finitely many batches; the first query carries no
\* cursor and every later one the cursor the previous response gave; and no
\* query is sent once the page holds limit items.
C30_PagingTerminates ==
    /\ [](lpc = "await" =>
            IF lbatches = 1 THEN ~lsent.start_cursor.set
            ELSE lnext.set /\ lsent.start_cursor = lnext)
    /\ [](lpc \in {"loop", "await"} => Len(lcollected) < lreq.limit)
    /\ (lpc = "loop" ~> lpc = "done")

\* The call ended after three queries with its page filled while upstream
\* had offered a cursor for more.
C30_Witness ==
    /\ lpc = "done" /\ lbatches = 3
    /\ Len(lcollected) = lreq.limit
    /\ lnext.set /\ lhas_more

\* ============================================= resolver failure properties
\* C25: an upstream failure inside get_database_schema is never recorded in
\* the cache: when the call has returned the empty schema because its
\* retrieve or its sample query failed, the cache has no 'properties' for
\* that database, so that the next call (lines 96-97) goes upstream again.
C25_SchemaFailureNotCached ==
    \A r \in Resolvers :
        (/\ rpc[r] = "done" /\ rop[r] = "schema"
         /\ rans[r].kind = "fail" /\ rans[r].req \in {"retrieve", "query"}) =>
            ~(cache[rdb[r]].present /\ cache[rdb[r]].has_props)

\* C26: every cache entry resolve_database_id serves as a hit holds a
\* data_source_id taken from a successful retrieve; an entry made by
\* get_database_schema alone (its resolve failed, its own retrieve succeeded)
\* never makes a later resolve_database_id return the database id from the
\* cache without a request upstream.
C26_HitHasDataSourceId ==
    [][\A r \in Resolvers, d \in DbIds :
          (/\ rpc[r] = "idle" /\ rpc'[r] = "done"
           /\ rop'[r] = "resolve" /\ rdb'[r] = d) =>
              /\ cache[d].has_ds
              /\ rret'[r] = IdReturn(cache[d].data_source_id)]_vars

\* C27: a resolve_database_id whose retrieve fails leaves the cache as it
\* was, the database still without an entry and every other entry
\* untouched; a resolve of a database without an entry sends a retrieve;
\* and an entry goes away only by clear_cache, which leaves no entry at all.
C27_FailedResolveLeavesCache ==
    [][/\ \A r \in Resolvers :
            (/\ rpc[r] = "r_retrieve" /\ rpc'[r] # "r_retrieve"
             /\ rans'[r].kind = "fail") =>
                /\ cache' = cache
                /\ ~cache'[rdb[r]].present
       /\ \A r \in Resolvers, d \in DbIds :
            (/\ rpc[r] = "idle" /\ rpc'[r] # "idle"
             /\ rop'[r] = "resolve" /\ rdb'[r] = d
             /\ ~cache[d].present) =>
                /\ rpc'[r] = "r_retrieve"
                /\ rfetch'[r]
       /\ (\E d \in DbIds : cache[d].present /\ ~cache'[d].present) =>
                /\ cache' = EmptyCache
                /\ UNCHANGED <<rpc, rop, rdb, rsrc, rret, rfetch, rans>>
      ]_vars

\* A resolve of one database has failed and returned the database id; that
\* database has no entry, and the entry of the other database is in place.
C27_Witness ==
    \E r \in Resolvers :
        /\ rpc[r] = "done" /\ rop[r] = "resolve" /\ rdb[r] = "db-1"
        /\ rans[r].kind = "fail" /\ rret[r] = IdReturn("db-1")
        /\ ~cache["db-1"].present
        /\ cache["db-2"].present /\ cache["db-2"].has_ds

\* ================================================ task service properties
\* C28: a domain error raised inside create_task or update_task before the
\* upstream call reaches the caller with its own class: update_task with a
\* request that yields no properties fails with ValidationError and makes no
\* upstream call, and an assignee without a user mapping makes either method
\* fail with NotFoundError; neither leaves as InternalError.
C28_DomainErrorsKeepKind ==
    spc = "done" =>
        /\ sraised = "ValidationError" => (sres = "ValidationError" /\ scalls = 0)
        /\ sraised = "NotFoundError" => (sres = "NotFoundError" /\ scalls = 0)

\* ==================================================== workspace properties
\* C29: at most one workspace exists per (platform, platform_id): however
\* concurrent calls of create with the same key interleave, one call inserts
\* and every other one fails with ConflictError.
C29_OneWorkspacePerKey ==
    /\ \A k \in WorkspaceKeys : workspaces[k] <= 1
    /\ \A c, d \in WorkspaceCreators :
          (/\ c # d /\ wkey[c] = wkey[d]
           /\ wpc[c] = "done" /\ wpc[d] = "done"
           /\ wres[c] = "created") => wres[d] = "ConflictError"

====
